---- MODULE Spec2Model ----
(***************************************************************************)
(* Model of the question-extraction pipeline of Pdf2QuestionsByAi:         *)
(*   - the chunk splitter            (splitJson.py, split_json_with_folder) *)
(*   - the extraction client's retry loop                                   *)
(*                  (aiJson2Questions.py, transform_raw_text_to_mongo_...)  *)
(*   - the chunk orchestrator and the final filter                          *)
(*                  (main.py, PDF2QuestionConverter)                        *)
(*   - the sanitizing, decoding and normalizing of the reply               *)
(*                  (aiJson2Questions.py, lines 231-470)                    *)
(*   - the reading of a document     (main.py, _parse_json_file)            *)
(* Each component has its own specification over its own variables:         *)
(*   SpecSplit, SpecExtract, Spec and FairSpec (orchestrator),              *)
(*   SpecChunking, SpecMerge, SpecReply, SpecClean, SpecRecover,            *)
(*   SpecNormalize, SpecBatch, SpecDefaults.                                *)
(***************************************************************************)
EXTENDS Integers, Sequences, FiniteSets, TLC

VARIABLES
    \* ---- split_json_with_folder (SpecSplit)
    data,                 \* the list loaded from input_file
    max_items_per_chunk,  \* the cap argument
    split_pc,             \* "call" | "returned"
    split_result          \* the returned chunk_files: <<[name, chunk], ...>>

splitVars == <<data, max_items_per_chunk, split_pc, split_result>>

VARIABLES
    \* ---- transform_raw_text_to_mongo_questions, one call (SpecExtract)
    raw_text_data,        \* the argument: a list of text records
    api_key_valid,        \* config.validate_api_key()
    max_retries,          \* config.MAX_RETRIES as configured
    ex_pc,                \* "entry" | "loop" | "in_flight" | "parse" | "returned" | "raised"
    attempt,              \* the loop variable of the retry loop
    generated_content,    \* "None" until an attempt succeeds
    exc,                  \* the exception caught last
    slept,                \* seconds slept by the last step (0: it did not sleep)
    warmups,              \* number of warm-up sleeps
    backoffs,             \* number of backoff sleeps
    api_calls,            \* number of client.post calls
    ex_value,             \* what the call returned ("none" until it returns)
    raised,               \* the exception the call raised
    caught,               \* history: the except clauses that caught an exception so far
    clients               \* httpx.AsyncClient objects: how many were opened, how many are open

extractVars == <<raw_text_data, api_key_valid, max_retries, ex_pc, attempt,
                 generated_content, exc, slept, warmups, backoffs, api_calls,
                 ex_value, raised, caught, clients>>

VARIABLES
    \* ---- convert_json_to_questions and the chunk orchestrator (Spec)
    file_idx,             \* position of the for loop over json_files (1-based)
    pc,                   \* "files" | "direct" | "chunk_loop" | "chunk_call" | "done"
    json_data,            \* the records of the file being processed
    temp_json_file,       \* TRUE while the temporary file temp_<stem>.json exists
    chunk_files,          \* the chunk files of the file being processed
    j,                    \* position of the for loop over chunk_files (1-based)
    result_files,         \* names of the result files written in this run
    result_fs,            \* the result folder: result file name -> questions
    all_questions,        \* questions of all files so far
    filtered_questions,   \* the list returned by convert_json_to_questions
    output_file,          \* what was dumped to output_file ("unwritten" before)
    o_slept,              \* seconds slept by the last orchestrator step
    doc_path,             \* history: the path taken for the last file read
    extract_calls,        \* history: the extract calls made for that file
    chunk_outcome,        \* history: per chunk of that file, what extract did
    file_questions        \* history: what processing the last finished file returned

orchVars == <<file_idx, pc, json_data, temp_json_file, chunk_files, j,
              result_files, result_fs, all_questions, filtered_questions,
              output_file, o_slept, doc_path, extract_calls, chunk_outcome,
              file_questions>>

VARIABLES
    \* ---- step 4 of _process_with_chunking on its own (SpecMerge)
    m_result_files,       \* result_files as the chunk loop left it
    m_result_fs,          \* the result folder
    m_pc,                 \* "merge" | "returned"
    m_merged              \* merged_questions

mergeVars == <<m_result_files, m_result_fs, m_pc, m_merged>>

VARIABLES
    \* ---- the reply of a successful attempt, lines 231-294 of extract (SpecReply)
    reply,                \* generated_content: the text of the model's reply
    content,              \* the sanitized text
    rp_pc,                \* "sanitize" | "check_empty" | "decode" | "select" |
                          \* "validate" | "returned" | "raised"
    transformed_data,     \* json.loads(content)
    questions_data,       \* the list handed to the validation of the records
    rp_value,             \* what the call returned from this part ("none": nothing)
    rp_raised             \* the exception that escaped from this part

replyVars == <<reply, content, rp_pc, transformed_data, questions_data,
               rp_value, rp_raised>>

VARIABLES
    \* ---- _parse_json_file and _parse_lines_manually (SpecRecover)
    rc_entry,             \* the method called
    rc_readable,          \* the file can be opened and read as UTF-8
    file_content,         \* the text of the file (the argument of the manual parser)
    rc_pc,                \* "call" | "returned" | "raised"
    rc_path,              \* which branch of _parse_json_file produced json_data
    rc_result             \* the list returned

recoverVars == <<rc_entry, rc_readable, file_content, rc_pc, rc_path, rc_result>>

VARIABLES
    \* ---- one record of questions_data, lines 296-467 of extract, and the
    \*      final filter of main.py on the emitted record (SpecNormalize)
    q_data,               \* the raw record, as decoded from the reply
    nz_pc,                \* "validate" | "normalize" | "emitted" | "skipped" | "filtered"
    q_dict,               \* the record of final_output_questions
    nz_exc,               \* the exception that made the loop skip the record
    nz_kept               \* the final filter kept the record

normVars == <<q_data, nz_pc, q_dict, nz_exc, nz_kept>>

VARIABLES
    \* ---- the records of one reply, lines 296-470 of extract (SpecBatch)
    bt_questions_data,    \* questions_data: the list selected from the reply
    bt_pc,                \* "validate" | "normalize" | "returned"
    bt_i,                 \* position of the running loop (1-based)
    valid_questions,      \* positions in questions_data of the records kept
    validated_questions,  \* the records that passed MongoQuestion(**q_data)
    final_output_questions, \* the list returned
    bt_skipped            \* history: the records skipped, and why

batchVars == <<bt_questions_data, bt_pc, bt_i, valid_questions, validated_questions,
               final_output_questions, bt_skipped>>

VARIABLES
    \* ---- the defaulting step, lines 391-395 of extract (SpecDefaults)
    df_data,              \* q_data when the step starts
    df_pc,                \* "defaults" | "done"
    df_out                \* q_data when the step ends

defaultVars == <<df_data, df_pc, df_out>>

vars == <<splitVars, extractVars, orchVars, mergeVars, replyVars, recoverVars, normVars,
          batchVars, defaultVars>>

(***************************************************************************)
(* Bounds of the model                                                     *)
(***************************************************************************)
MaxItems == 61       \* SpecSplit: documents of 0..MaxItems items
MaxCap == 51         \* SpecSplit: caps 1..MaxCap
MaxRetries == 7      \* SpecExtract: MAX_RETRIES configured in 0..MaxRetries
MaxFiles == 2        \* Spec: batches of 1..MaxFiles input files
MaxQuestions == 2    \* Spec: one extract call returns 0..MaxQuestions questions
MaxTotal == 2        \* Spec: at most MaxTotal questions are extracted in one run
MaxIndexDigits == 4  \* SpecMerge: chunk indexes probed around 10^1..10^MaxIndexDigits
MaxReplyLen == 3     \* SpecReply: the longest reply, in tokens
MaxLines == 2        \* SpecRecover: the most lines of a file
MaxAnswers == 2      \* SpecNormalize: the longest raw correctAnswer list
MaxBatch == 2        \* SpecBatch: the most records of a reply
MaxIndent == 2       \* SpecClean: the deepest indentation of a line, in spaces

(***************************************************************************)
(* Strings are sequences of character codes, so that file names are built  *)
(* and compared the way Python builds and compares them.                   *)
(***************************************************************************)
PAD_WIDTH == 4                                    \* the 04 of f"{i+1:04d}"
CHUNK_PREFIX == <<99, 104, 117, 110, 107, 95>>    \* "chunk_"
JSON_EXT == <<46, 106, 115, 111, 110>>            \* ".json"
RESULT_SUFFIX == <<95, 114, 101, 115, 117, 108, 116>> \o JSON_EXT  \* "_result.json"

Min(a, b) == IF a <= b THEN a ELSE b

\* the decimal digits of n >= 0, most significant first
RECURSIVE Digits(_)
Digits(n) == IF n < 10 THEN <<n>> ELSE Append(Digits(n \div 10), n % 10)

\* left-pad a digit sequence with zeros up to width; longer sequences are kept whole
RECURSIVE ZeroPad(_, _)
ZeroPad(ds, width) == IF Len(ds) >= width THEN ds ELSE ZeroPad(<<0>> \o ds, width)

\* f"{n:04d}" as character codes ('0' is 48)
Format04d(n) ==
    LET ds == ZeroPad(Digits(n), PAD_WIDTH)
    IN  [k \in 1..Len(ds) |-> 48 + ds[k]]

\* Python's str < str: code point by code point, a proper prefix is smaller
RECURSIVE StrLess(_, _)
StrLess(a, b) ==
    IF a = <<>> THEN b # <<>>
    ELSE IF b = <<>> THEN FALSE
    ELSE IF Head(a) = Head(b) THEN StrLess(Tail(a), Tail(b))
    ELSE Head(a) < Head(b)

\* Python's s[start:end] on a list (0-based, end exclusive, clamped to the list)
Slice(s, start, end) ==
    LET hi == Min(end, Len(s))
    IN  IF start >= hi THEN <<>> ELSE [k \in 1..(hi - start) |-> s[start + k]]

(***************************************************************************)
(* split_json_with_folder                                                  *)
(***************************************************************************)
\* math.ceil(total / max_items_per_chunk), floor division: the mutant of C1
NumChunksFloor(total, cap) == total \div cap

\* num_chunks = math.ceil(total / max_items_per_chunk)
NumChunks(total, cap) == (total + cap - 1) \div cap

\* start_idx = i * max_items_per_chunk
ChunkStart(i, cap) == i * cap

\* an end index one past the cap: the mutant of C2
ChunkEndInclusive(i, cap, total) == Min((i + 1) * cap + 1, total)

\* end_idx = min((i + 1) * max_items_per_chunk, total)
ChunkEnd(i, cap, total) == Min((i + 1) * cap, total)

\* chunk_filename = f"chunk_{i+1:04d}.json"
ChunkFilename(i) == CHUNK_PREFIX \o Format04d(i + 1) \o JSON_EXT

\* the for loop over range(num_chunks), from iteration i on, chunk_files so far in acc
\* (iteration i starts with the i entries of the iterations before it: the test
\* on Len(acc) never ends the loop, it has TLC evaluate acc before it recurses)
RECURSIVE SplitLoop(_, _, _, _)
SplitLoop(d, cap, i, acc) ==
    IF i >= NumChunks(Len(d), cap) \/ Len(acc) # i THEN acc
    ELSE LET chunk == Slice(d, ChunkStart(i, cap), ChunkEnd(i, cap, Len(d)))
         IN  IF chunk = <<>> THEN acc      \* if not chunk: break
             ELSE SplitLoop(d, cap, i + 1,
                            Append(acc, [name |-> ChunkFilename(i), chunk |-> chunk]))

\* the returned chunk_files (the chunk as written to each chunk file)
SplitJsonWithFolder(d, cap) ==
    IF Len(d) = 0 THEN <<>> ELSE SplitLoop(d, cap, 0, <<>>)

\* a document of T items; item k is identified by its position
Document(T) == [k \in 1..T |-> k]

SplitStart ==
    /\ data \in {Document(T) : T \in 0..MaxItems}
    /\ max_items_per_chunk \in 1..MaxCap
    /\ split_pc = "call"
    /\ split_result = <<>>

\* total == 0: the warning and the early return of an empty list
SplitEmpty ==
    /\ split_pc = "call"
    /\ Len(data) = 0
    /\ split_pc' = "returned"
    /\ split_result' = <<>>
    /\ UNCHANGED <<data, max_items_per_chunk>>
    /\ UNCHANGED <<extractVars, orchVars, mergeVars, replyVars, recoverVars, normVars, batchVars, defaultVars>>

\* total > 0: the loop writes the chunk files and returns their list
SplitChunks ==
    /\ split_pc = "call"
    /\ Len(data) > 0
    /\ split_pc' = "returned"
    /\ split_result' = SplitJsonWithFolder(data, max_items_per_chunk)
    /\ UNCHANGED <<data, max_items_per_chunk>>
    /\ UNCHANGED <<extractVars, orchVars, mergeVars, replyVars, recoverVars, normVars, batchVars, defaultVars>>

SplitNext == SplitEmpty \/ SplitChunks

(***************************************************************************)
(* transform_raw_text_to_mongo_questions: entry checks, warm-up, retry loop *)
(***************************************************************************)
RETRY_DELAY == 5            \* config.RETRY_DELAY (seconds)
NETWORK_ERROR_DELAY == 15   \* config.NETWORK_ERROR_DELAY
API_WARMUP_DELAY == 2       \* config.API_WARMUP_DELAY
RATE_LIMIT_EXTRA == 5       \* the literal 5 added to the wait after a 429

MAX_CONNECTIONS == 1        \* httpx.Limits(max_keepalive_connections=0, max_connections=1)

NoClients == [opened |-> 0, open |-> 0]

\* async with httpx.AsyncClient(timeout=timeout, limits=limits) as client
OpenClient(c) == [opened |-> c.opened + 1, open |-> c.open + 1]

\* the async with block is left, by break or by an exception: the client is closed
CloseClient(c) == [c EXCEPT !.open = @ - 1]

Exc(type, status_code) == [type |-> type, status_code |-> status_code]
NoExc == Exc("None", 0)

\* what one attempt can raise, by the except clause that catches it:
\* except (httpx.ReadError, httpx.ConnectError, httpx.TimeoutException);
\* ReadTimeout and ConnectTimeout are subclasses of httpx.TimeoutException
TransportExc == {Exc("ReadError", 0), Exc("ConnectError", 0),
                 Exc("ReadTimeout", 0), Exc("ConnectTimeout", 0)}
\* except httpx.HTTPStatusError, raised by response.raise_for_status()
HttpStatusExc == {Exc("HTTPStatusError", c) : c \in {401, 429, 500}}
\* except Exception: anything else (response.json() failing, a missing key, ...)
OtherExc == {Exc("JSONDecodeError", 0), Exc("KeyError", 0)}

\* the except clause that catches e: "transport" (190), "status" (207),
\* "other" (219)
FailureClass(e) ==
    IF e \in TransportExc THEN "transport"
    ELSE IF e \in HttpStatusExc THEN "status"
    ELSE "other"

\* if attempt < max_retries - 1
CanRetry(a, retries) == a < retries - 1

\* the extra delay for every class whose name holds "Read": the mutant of C8
TransportWaitReadPrefix(error_type, a) ==
    IF error_type \in {"ReadError", "ReadTimeout"}
    THEN RETRY_DELAY * (2 ^ a) + NETWORK_ERROR_DELAY
    ELSE RETRY_DELAY * (2 ^ a)

\* wait_time of the transport clause: the extra delay only if error_type == "ReadError"
TransportWait(error_type, a) ==
    IF error_type = "ReadError"
    THEN RETRY_DELAY * (2 ^ a) + NETWORK_ERROR_DELAY
    ELSE RETRY_DELAY * (2 ^ a)

\* the wait of the transport clause, without the extra 5: the mutant of C9
RateLimitWaitNoExtra(a) == RETRY_DELAY * (2 ^ a)

\* wait_time = retry_delay * (2 ** attempt) + 5
RateLimitWait(a) == RETRY_DELAY * (2 ^ a) + RATE_LIMIT_EXTRA

\* every status error retried like a 429: the mutant of C10
IsRateLimitAnyStatus(status_code) == status_code >= 400

\* if e.response.status_code == 429
IsRateLimit(status_code) == status_code = 429

\* the wait of the transport clause in the last clause: the mutant of C11
OtherWaitExponential(a) == RETRY_DELAY * (2 ^ a)

\* except Exception: await asyncio.sleep(retry_delay)
OtherWait(a) == RETRY_DELAY

ExtractStart ==
    /\ raw_text_data \in {<<>>, <<"text">>}
    /\ api_key_valid \in BOOLEAN
    /\ max_retries \in 0..MaxRetries
    /\ ex_pc = "entry"
    /\ attempt = 0
    /\ generated_content = "None"
    /\ exc = NoExc
    /\ slept = 0
    /\ warmups = 0
    /\ backoffs = 0
    /\ api_calls = 0
    /\ ex_value = "none"
    /\ raised = NoExc
    /\ caught = {}
    /\ clients = NoClients

ExtractFrame == UNCHANGED <<raw_text_data, api_key_valid, max_retries,
                            splitVars, orchVars, mergeVars, replyVars, recoverVars, normVars, batchVars, defaultVars>>

\* the API key is validated before the input is looked at: the mutant of C39
ExtractEmptyInputAfterKeyCheck ==
    /\ ex_pc = "entry"
    /\ raw_text_data = <<>>
    /\ IF api_key_valid
       THEN ex_pc' = "returned" /\ ex_value' = "empty" /\ UNCHANGED raised
       ELSE ex_pc' = "raised" /\ raised' = Exc("ValueError", 0) /\ UNCHANGED ex_value
    /\ slept' = 0
    /\ UNCHANGED <<attempt, generated_content, exc, warmups, backoffs, api_calls, caught, clients>>
    /\ ExtractFrame

\* if not raw_text_data: return []
ExtractEmptyInput ==
    /\ ex_pc = "entry"
    /\ raw_text_data = <<>>
    /\ ex_pc' = "returned"
    /\ ex_value' = "empty"
    /\ slept' = 0
    /\ UNCHANGED <<attempt, generated_content, exc, warmups, backoffs, api_calls, raised, caught, clients>>
    /\ ExtractFrame

\* if not config.validate_api_key(): raise ValueError
ExtractNoApiKey ==
    /\ ex_pc = "entry"
    /\ raw_text_data # <<>>
    /\ ~api_key_valid
    /\ ex_pc' = "raised"
    /\ raised' = Exc("ValueError", 0)
    /\ slept' = 0
    /\ UNCHANGED <<attempt, generated_content, exc, warmups, backoffs, api_calls, ex_value, caught, clients>>
    /\ ExtractFrame

\* prompt building, then await asyncio.sleep(config.API_WARMUP_DELAY); the loop starts
WarmUp ==
    /\ ex_pc = "entry"
    /\ raw_text_data # <<>>
    /\ api_key_valid
    /\ slept' = API_WARMUP_DELAY
    /\ warmups' = warmups + 1
    /\ attempt' = 0
    /\ ex_pc' = "loop"
    /\ UNCHANGED <<generated_content, exc, backoffs, api_calls, ex_value, raised, caught, clients>>
    /\ ExtractFrame

\* for attempt in range(max_retries): a client is opened and client.post is awaited
StartAttempt ==
    /\ ex_pc = "loop"
    /\ attempt < max_retries
    /\ clients' = OpenClient(clients)
    /\ api_calls' = api_calls + 1
    /\ slept' = 0
    /\ ex_pc' = "in_flight"
    /\ UNCHANGED <<attempt, generated_content, exc, warmups, backoffs, ex_value, raised, caught>>
    /\ ExtractFrame

\* range(max_retries) is exhausted: generated_content is None, return []
LoopExhausted ==
    /\ ex_pc = "loop"
    /\ attempt >= max_retries
    /\ generated_content = "None"
    /\ ex_pc' = "returned"
    /\ ex_value' = "empty"
    /\ slept' = 0
    /\ UNCHANGED <<attempt, generated_content, exc, warmups, backoffs, api_calls, raised, caught, clients>>
    /\ ExtractFrame

\* the response arrives with a 2xx status; its message content is a string or
\* null (generated_content = response_json['choices'][0]['message']['content']): break
AttemptSucceeds ==
    /\ ex_pc = "in_flight"
    /\ generated_content' \in {"reply", "None"}
    /\ clients' = CloseClient(clients)
    /\ ex_pc' = "parse"
    /\ slept' = 0
    /\ UNCHANGED <<attempt, exc, warmups, backoffs, api_calls, ex_value, raised, caught>>
    /\ ExtractFrame

\* the warm-up is slept again before the next attempt: the mutant of C28
RetryAfterWarmUp(e, w) ==
    /\ exc' = e
    /\ clients' = CloseClient(clients)
    /\ caught' = caught \cup {FailureClass(e)}
    /\ slept' = w + API_WARMUP_DELAY
    /\ warmups' = warmups + 1
    /\ backoffs' = backoffs + 1
    /\ attempt' = attempt + 1
    /\ ex_pc' = "loop"
    /\ UNCHANGED <<generated_content, api_calls, ex_value, raised>>
    /\ ExtractFrame

\* the backoff is slept inside the async with block, the client still open
\* (it is closed when the block is left, after the next attempt has begun):
\* the mutant of C34
RetryAfterHoldingClient(e, w) ==
    /\ exc' = e
    /\ caught' = caught \cup {FailureClass(e)}
    /\ slept' = w
    /\ backoffs' = backoffs + 1
    /\ attempt' = attempt + 1
    /\ ex_pc' = "loop"
    /\ UNCHANGED <<generated_content, warmups, api_calls, ex_value, raised, clients>>
    /\ ExtractFrame

\* a 429 is retried without using up an attempt (a counter of its own): the
\* mutant of C33
RetryAfterPerClass(e, w) ==
    /\ exc' = e
    /\ clients' = CloseClient(clients)
    /\ caught' = caught \cup {FailureClass(e)}
    /\ slept' = w
    /\ backoffs' = backoffs + 1
    /\ attempt' = IF FailureClass(e) = "status" THEN attempt ELSE attempt + 1
    /\ ex_pc' = "loop"
    /\ UNCHANGED <<generated_content, warmups, api_calls, ex_value, raised>>
    /\ ExtractFrame

\* the except clause handled e by sleeping w seconds; the for loop takes the next attempt
RetryAfter(e, w) ==
    /\ exc' = e
    /\ clients' = CloseClient(clients)
    /\ caught' = caught \cup {FailureClass(e)}
    /\ slept' = w
    /\ backoffs' = backoffs + 1
    /\ attempt' = attempt + 1
    /\ ex_pc' = "loop"
    /\ UNCHANGED <<generated_content, warmups, api_calls, ex_value, raised>>
    /\ ExtractFrame

\* the except clause re-raised e
Reraise(e) ==
    /\ exc' = e
    /\ clients' = CloseClient(clients)
    /\ caught' = caught \cup {FailureClass(e)}
    /\ raised' = e
    /\ slept' = 0
    /\ ex_pc' = "raised"
    /\ UNCHANGED <<attempt, generated_content, warmups, backoffs, api_calls, ex_value>>
    /\ ExtractFrame

\* except (httpx.ReadError, httpx.ConnectError, httpx.TimeoutException)
TransportError ==
    /\ ex_pc = "in_flight"
    /\ \E e \in TransportExc :
         IF CanRetry(attempt, max_retries)
         THEN RetryAfter(e, TransportWait(e.type, attempt))
         ELSE Reraise(e)

\* except httpx.HTTPStatusError
HttpStatusError ==
    /\ ex_pc = "in_flight"
    /\ \E e \in HttpStatusExc :
         IF IsRateLimit(e.status_code)
         THEN IF CanRetry(attempt, max_retries)
              THEN RetryAfter(e, RateLimitWait(attempt))
              ELSE Reraise(e)
         ELSE Reraise(e)

\* except Exception
OtherError ==
    /\ ex_pc = "in_flight"
    /\ \E e \in OtherExc :
         IF CanRetry(attempt, max_retries)
         THEN RetryAfter(e, OtherWait(attempt))
         ELSE Reraise(e)

\* after a break with a null content: if generated_content is None: return []
NoContent ==
    /\ ex_pc = "parse"
    /\ generated_content = "None"
    /\ ex_pc' = "returned"
    /\ ex_value' = "empty"
    /\ slept' = 0
    /\ UNCHANGED <<attempt, generated_content, exc, warmups, backoffs, api_calls, raised, caught, clients>>
    /\ ExtractFrame

\* the selection of the questions array (276-294) is outside every try: a
\* reply that decodes to null, a number or a boolean raises TypeError
ParseRaises ==
    /\ ex_pc = "parse"
    /\ generated_content # "None"
    /\ ex_pc' = "raised"
    /\ raised' = Exc("TypeError", 0)
    /\ slept' = 0
    /\ UNCHANGED <<attempt, generated_content, exc, warmups, backoffs, api_calls, ex_value, caught, clients>>
    /\ ExtractFrame

\* the reply is sanitized, decoded and normalized; the call returns a list
ParseReply ==
    /\ ex_pc = "parse"
    /\ generated_content # "None"
    /\ \E v \in {"empty", "questions"} : ex_value' = v
    /\ ex_pc' = "returned"
    /\ slept' = 0
    /\ UNCHANGED <<attempt, generated_content, exc, warmups, backoffs, api_calls, raised, caught, clients>>
    /\ ExtractFrame

ExtractNext ==
    \/ ExtractEmptyInput
    \/ ExtractNoApiKey
    \/ WarmUp
    \/ StartAttempt
    \/ LoopExhausted
    \/ AttemptSucceeds
    \/ TransportError
    \/ HttpStatusError
    \/ OtherError
    \/ NoContent
    \/ ParseRaises
    \/ ParseReply

\* _process_json_with_chunking, the direct path (main.py 337-371), on the end
\* of its extract call: a list is returned as it is ([] for no questions);
\* the except clause prints a hint that depends on the class of the
\* exception and re-raises whatever it caught
DirectOutcome ==
    IF ex_pc = "raised" THEN [outcome |-> "raised", exc |-> raised]
    ELSE IF ex_pc = "returned" THEN [outcome |-> "returned", exc |-> NoExc]
    ELSE [outcome |-> "running", exc |-> NoExc]

(***************************************************************************)
(* The reply of the model: sanitizing (231-256), decoding (258-273) and    *)
(* the selection of the questions array (275-294).                         *)
(* A text is a sequence of tokens; each token stands for the characters    *)
(* written in its name, so that prefix, suffix, strip and split on texts   *)
(* are the ones of the strings they stand for.                             *)
(***************************************************************************)
FENCE == "<fence>"           \* three backquotes
JSONWORD == "json"
SP == " "
NL == "\n"
TAB == "\t"
Whitespace == {SP, NL, TAB}

\* complete JSON texts and one incomplete one, each a token of a reply
BROKEN_TEXT == "{"
NULL_TEXT == "null"
TRUE_TEXT == "true"
STRING_TEXT == "\"abc\""
OBJECT_TEXT == "{\"a\":1}"
QUESTIONS_INT_TEXT == "{\"questions\":5}"
QUESTIONS_STR_TEXT == "{\"questions\":\"ab\"}"
QUESTIONS_LIST_TEXT == "{\"questions\":[{\"content\":\"q\"}]}"
Payloads == {BROKEN_TEXT, NULL_TEXT, TRUE_TEXT, STRING_TEXT, OBJECT_TEXT,
             QUESTIONS_INT_TEXT, QUESTIONS_STR_TEXT, QUESTIONS_LIST_TEXT}
Tokens == {FENCE, JSONWORD, SP, NL} \cup Payloads

RECURSIVE LStrip(_)
LStrip(s) == IF s # <<>> /\ Head(s) \in Whitespace THEN LStrip(Tail(s)) ELSE s

RECURSIVE RStrip(_)
RStrip(s) ==
    IF s # <<>> /\ s[Len(s)] \in Whitespace
    THEN RStrip(SubSeq(s, 1, Len(s) - 1))
    ELSE s

\* str.strip()
Strip(s) == RStrip(LStrip(s))

\* str.startswith(prefix)
StartsWith(s, prefix) ==
    /\ Len(s) >= Len(prefix)
    /\ SubSeq(s, 1, Len(prefix)) = prefix

\* str.endswith(suffix)
EndsWith(s, suffix) ==
    /\ Len(s) >= Len(suffix)
    /\ SubSeq(s, Len(s) - Len(suffix) + 1, Len(s)) = suffix

\* content.split('\n'): the pieces between the newlines, empty pieces included
RECURSIVE SplitLines(_, _)
SplitLines(s, cur) ==
    IF s = <<>> THEN <<cur>>
    ELSE IF Head(s) = NL THEN <<cur>> \o SplitLines(Tail(s), <<>>)
    ELSE SplitLines(Tail(s), Append(cur, Head(s)))

\* for line in lines: line = line.strip();
\* if line and not line.startswith(fence) and line != 'json': cleaned_lines.append(line)
RECURSIVE CleanedLines(_)
CleanedLines(lines) ==
    IF lines = <<>> THEN <<>>
    ELSE LET line == Strip(Head(lines))
             rest == CleanedLines(Tail(lines))
         IN  IF line # <<>> /\ ~StartsWith(line, <<FENCE>>) /\ line # <<JSONWORD>>
             THEN <<line>> \o rest
             ELSE rest

\* '\n'.join(cleaned_lines)
RECURSIVE JoinLines(_)
JoinLines(lines) ==
    IF lines = <<>> THEN <<>>
    ELSE IF Len(lines) = 1 THEN lines[1]
    ELSE lines[1] \o <<NL>> \o JoinLines(Tail(lines))

\* lines 232-256: the cleaning of generated_content
Sanitize(g) ==
    LET c0 == Strip(g)
        c1 == IF StartsWith(c0, <<FENCE, JSONWORD>>) THEN SubSeq(c0, 3, Len(c0))
              ELSE IF StartsWith(c0, <<FENCE>>) THEN SubSeq(c0, 2, Len(c0))
              ELSE c0
        c2 == IF EndsWith(c1, <<FENCE>>) THEN SubSeq(c1, 1, Len(c1) - 1) ELSE c1
        c3 == Strip(c2)
        cleaned_lines == CleanedLines(SplitLines(c3, <<>>))
        c4 == IF cleaned_lines # <<>> THEN JoinLines(cleaned_lines) ELSE c3
    IN  Strip(c4)

\* Python values
PyNone == [t |-> "NoneType", v |-> "None"]
PyBool(b) == [t |-> "bool", v |-> b]
PyInt(n) == [t |-> "int", v |-> n]
PyStr(x) == [t |-> "str", v |-> x]
PyList(xs) == [t |-> "list", v |-> xs]
PyDict(f) == [t |-> "dict", v |-> f]
JSONDecodeError == [t |-> "JSONDecodeError", v |-> "None"]

\* json.loads of one token
LoadsText(text) ==
    CASE text = NULL_TEXT -> PyNone
      [] text = TRUE_TEXT -> PyBool(TRUE)
      [] text = STRING_TEXT -> PyStr("abc")
      [] text = OBJECT_TEXT -> PyDict([a |-> PyInt(1)])
      [] text = QUESTIONS_INT_TEXT -> PyDict([questions |-> PyInt(5)])
      [] text = QUESTIONS_STR_TEXT -> PyDict([questions |-> PyStr("ab")])
      [] text = QUESTIONS_LIST_TEXT ->
             PyDict([questions |-> PyList(<<PyDict([content |-> PyStr("q")])>>)])
      [] OTHER -> JSONDecodeError

\* json.loads(content): two tokens side by side, or separated by white space,
\* are never one JSON text; neither are the fence, the word json and "{"
Loads(c) == IF Len(c) = 1 THEN LoadsText(c[1]) ELSE JSONDecodeError

\* "questions" in x: a key of a dict, an element of a list, a part of a str;
\* TypeError for a value that is not a container
ContainsQuestions(x) ==
    CASE x.t = "dict" -> IF "questions" \in DOMAIN x.v THEN "True" ELSE "False"
      [] x.t = "list" -> IF \E i \in DOMAIN x.v : x.v[i].t = "str" /\ x.v[i].v = "questions"
                         THEN "True" ELSE "False"
      [] x.t = "str" -> IF x.v \in {"questions"} THEN "True" ELSE "False"
      [] OTHER -> "TypeError"

\* len(x) is defined on containers only
HasLen(x) == x.t \in {"dict", "list", "str"}

\* not x, for a container
IsEmpty(x) ==
    CASE x.t = "dict" -> DOMAIN x.v = {}
      [] x.t = "list" -> x.v = <<>>
      [] x.t = "str" -> x.v = ""
      [] OTHER -> FALSE

\* lines 276-294: what becomes of transformed_data
\*   [outcome |-> "raise" | "return_empty" | "validate", questions_data |-> ...]
SelectOutcome(o, q) == [outcome |-> o, questions_data |-> q]

SelectQuestions(x) ==
    LET has == ContainsQuestions(x) IN
    IF has = "TypeError" THEN SelectOutcome("raise", PyNone)
    ELSE IF has = "True"
    THEN \* questions_data = transformed_data["questions"], then len(questions_data)
         IF x.t # "dict" THEN SelectOutcome("raise", PyNone)
         ELSE LET q == x.v["questions"] IN
              IF ~HasLen(q) THEN SelectOutcome("raise", PyNone)
              ELSE IF q.t # "list" THEN SelectOutcome("return_empty", PyNone)
              ELSE IF IsEmpty(q) THEN SelectOutcome("return_empty", PyNone)
              ELSE SelectOutcome("validate", q)
    ELSE \* questions_data = transformed_data if isinstance(transformed_data, list) else []
         IF x.t = "list" /\ ~IsEmpty(x) THEN SelectOutcome("validate", x)
         ELSE SelectOutcome("return_empty", PyNone)

RECURSIVE TextsUpTo(_)
TextsUpTo(n) ==
    IF n = 0 THEN {<<>>}
    ELSE LET shorter == TextsUpTo(n - 1)
         IN  shorter \cup {Append(t, k) : t \in shorter, k \in Tokens}

ReplyStart ==
    /\ reply \in TextsUpTo(MaxReplyLen)
    /\ content = <<>>
    /\ rp_pc = "sanitize"
    /\ transformed_data = PyNone
    /\ questions_data = PyNone
    /\ rp_value = "none"
    /\ rp_raised = "None"

ReplyFrame == UNCHANGED <<reply, splitVars, extractVars, orchVars, mergeVars, recoverVars, normVars, batchVars, defaultVars>>

\* lines 231-256
SanitizeReply ==
    /\ rp_pc = "sanitize"
    /\ content' = Sanitize(reply)
    /\ rp_pc' = "check_empty"
    /\ UNCHANGED <<transformed_data, questions_data, rp_value, rp_raised>>
    /\ ReplyFrame

\* if not content: return []
ReplyEmpty ==
    /\ rp_pc = "check_empty"
    /\ content = <<>>
    /\ rp_pc' = "returned"
    /\ rp_value' = "empty"
    /\ UNCHANGED <<content, transformed_data, questions_data, rp_raised>>
    /\ ReplyFrame

\* transformed_data = json.loads(content)
DecodeReply ==
    /\ rp_pc = "check_empty"
    /\ content # <<>>
    /\ Loads(content).t # "JSONDecodeError"
    /\ transformed_data' = Loads(content)
    /\ rp_pc' = "select"
    /\ UNCHANGED <<content, questions_data, rp_value, rp_raised>>
    /\ ReplyFrame

\* except json.JSONDecodeError: return []
DecodeFails ==
    /\ rp_pc = "check_empty"
    /\ content # <<>>
    /\ Loads(content).t = "JSONDecodeError"
    /\ rp_pc' = "returned"
    /\ rp_value' = "empty"
    /\ UNCHANGED <<content, transformed_data, questions_data, rp_raised>>
    /\ ReplyFrame

\* lines 276-294, ending in return [] or with a non-empty questions_data
SelectReturns ==
    /\ rp_pc = "select"
    /\ LET r == SelectQuestions(transformed_data) IN
         \/ /\ r.outcome = "return_empty"
            /\ rp_pc' = "returned"
            /\ rp_value' = "empty"
            /\ UNCHANGED questions_data
         \/ /\ r.outcome = "validate"
            /\ rp_pc' = "validate"
            /\ questions_data' = r.questions_data
            /\ UNCHANGED rp_value
    /\ UNCHANGED <<content, transformed_data, rp_raised>>
    /\ ReplyFrame

\* lines 276-294 are outside every try: a TypeError leaves the call
SelectRaises ==
    /\ rp_pc = "select"
    /\ SelectQuestions(transformed_data).outcome = "raise"
    /\ rp_pc' = "raised"
    /\ rp_raised' = "TypeError"
    /\ UNCHANGED <<content, transformed_data, questions_data, rp_value>>
    /\ ReplyFrame

ReplyNext ==
    \/ SanitizeReply
    \/ ReplyEmpty
    \/ DecodeReply
    \/ DecodeFails
    \/ SelectReturns
    \/ SelectRaises

(***************************************************************************)
(* Reading a document: _parse_json_file (main.py 243-311) and              *)
(* _parse_lines_manually (499-556). The text of a file is a sequence of    *)
(* tokens: punctuation, the double quote, words, a digit, white space.     *)
(***************************************************************************)
LBRACE == "{"
RBRACE == "}"
LBRACKET == "["
COMMA == ","
COLON == ":"
QUOTE == "\""
ELLIPSIS == "..."          \* the one character U+2026
Words == {"type", "text", "Q1"}
DigitTokens == {"1"}

\* the elements of a pattern: a literal token, \s*, [^"]*
Lit(t) == [k |-> "lit", tok |-> t]
WsStar == [k |-> "ws", tok |-> ""]
NotQuoteStar == [k |-> "nq", tok |-> ""]

\* the first index >= i of ts whose token is not in S (Len(ts)+1 if none)
RECURSIVE SkipWhile(_, _, _)
SkipWhile(ts, i, S) ==
    IF i <= Len(ts) /\ ts[i] \in S THEN SkipWhile(ts, i + 1, S) ELSE i

\* re.match of pat[p..] at index i of ts: the index after the match, 0 if none.
\* \s* and [^"]* are greedy; in every pattern used they are followed by a
\* token outside their class, so no backtracking is needed.
RECURSIVE MatchEnd(_, _, _, _)
MatchEnd(ts, i, pat, p) ==
    IF p > Len(pat) THEN i
    ELSE IF pat[p].k = "lit"
         THEN IF i <= Len(ts) /\ ts[i] = pat[p].tok
              THEN MatchEnd(ts, i + 1, pat, p + 1)
              ELSE 0
         ELSE IF pat[p].k = "ws"
         THEN MatchEnd(ts, SkipWhile(ts, i, Whitespace), pat, p + 1)
         ELSE MatchEnd(ts, SkipWhile(ts, i, (Words \cup DigitTokens \cup Whitespace
                            \cup {LBRACE, RBRACE, LBRACKET, COMMA, COLON, ELLIPSIS})),
                       pat, p + 1)

\* re.sub(pat, repl, ts): leftmost matches, not overlapping
RECURSIVE ReSubFrom(_, _, _, _)
ReSubFrom(ts, i, pat, repl) ==
    IF i > Len(ts) THEN <<>>
    ELSE LET e == MatchEnd(ts, i, pat, 1)
         IN  IF e > 0 THEN repl \o ReSubFrom(ts, e, pat, repl)
             ELSE <<ts[i]>> \o ReSubFrom(ts, i + 1, pat, repl)

ReSub(ts, pat, repl) == ReSubFrom(ts, 1, pat, repl)

\* re.sub(r'(\s*)([a-zA-Z_][a-zA-Z0-9_]*)\s*:', r'\1"\2":', ts): an identifier
\* followed by a colon, white space allowed between them, gets quoted and the
\* white space between it and the colon goes; inside string values as well
RECURSIVE QuoteKeysFrom(_, _)
QuoteKeysFrom(ts, i) ==
    IF i > Len(ts) THEN <<>>
    ELSE IF ts[i] \in Words
    THEN LET e == SkipWhile(ts, i, Words \cup DigitTokens)   \* after the identifier
             c == SkipWhile(ts, e, Whitespace)
         IN  IF c <= Len(ts) /\ ts[c] = COLON
             THEN <<QUOTE>> \o SubSeq(ts, i, e - 1) \o <<QUOTE, COLON>>
                      \o QuoteKeysFrom(ts, c + 1)
             ELSE SubSeq(ts, i, e - 1) \o QuoteKeysFrom(ts, e)
    ELSE <<ts[i]>> \o QuoteKeysFrom(ts, i + 1)

QuoteKeys(ts) == QuoteKeysFrom(ts, 1)

\* the patterns of the two parsers
EllipsisBrace == <<Lit(ELLIPSIS), WsStar, Lit(RBRACE)>>
CommaEllipsisBrace == <<Lit(COMMA), WsStar, Lit(ELLIPSIS), WsStar, Lit(RBRACE)>>
KeyWithoutValueComma ==
    <<Lit(COMMA), WsStar, Lit(QUOTE), NotQuoteStar, Lit(QUOTE), Lit(COLON), WsStar, Lit(COMMA)>>
KeyWithoutValueBrace ==
    <<Lit(COMMA), WsStar, Lit(QUOTE), NotQuoteStar, Lit(QUOTE), Lit(COLON), WsStar, Lit(RBRACE)>>
QuotedTextValue ==
    <<Lit(QUOTE), Lit("text"), Lit(QUOTE), Lit(COLON), WsStar,
      Lit(QUOTE), NotQuoteStar, Lit(QUOTE)>>
BareTextValue ==
    <<Lit("text"), Lit(COLON), WsStar, Lit(QUOTE), NotQuoteStar, Lit(QUOTE)>>

\* json.loads: the lexemes of a text
Lexeme(k, body) == [k |-> k, body |-> body]

RECURSIVE LexFrom(_, _)
LexFrom(ts, i) ==
    IF i > Len(ts) THEN <<>>
    ELSE IF ts[i] \in Whitespace THEN LexFrom(ts, i + 1)
    ELSE IF ts[i] \in {LBRACE, RBRACE, COMMA, COLON}
    THEN <<Lexeme(ts[i], <<>>)>> \o LexFrom(ts, i + 1)
    ELSE IF ts[i] \in DigitTokens
    THEN LET e == SkipWhile(ts, i, DigitTokens)
         IN  <<Lexeme("num", SubSeq(ts, i, e - 1))>> \o LexFrom(ts, e)
    ELSE IF ts[i] = QUOTE
    THEN LET c == SkipWhile(ts, i + 1, (Words \cup DigitTokens \cup Whitespace
                     \cup {LBRACE, RBRACE, LBRACKET, COMMA, COLON, ELLIPSIS}))
         IN  \* no closing quote, or a control character inside the string
             IF c > Len(ts) \/ \E m \in (i + 1)..(c - 1) : ts[m] \in {TAB, NL}
             THEN <<Lexeme("error", <<>>)>>
             ELSE <<Lexeme("str", SubSeq(ts, i + 1, c - 1))>> \o LexFrom(ts, c + 1)
    ELSE <<Lexeme("error", <<>>)>>   \* a bare word, the ellipsis, "["

\* the members of an object: "key": value, separated by commas; the values
\* of the lines of this model are strings and numbers
RECURSIVE Members(_)
Members(lx) ==
    IF Len(lx) < 3 THEN [ok |-> FALSE, pairs |-> <<>>]
    ELSE IF ~(lx[1].k = "str" /\ lx[2].k = COLON /\ lx[3].k \in {"str", "num"})
    THEN [ok |-> FALSE, pairs |-> <<>>]
    ELSE LET pair == <<lx[1].body, [t |-> lx[3].k, v |-> lx[3].body]>> IN
         IF Len(lx) = 3 THEN [ok |-> TRUE, pairs |-> <<pair>>]
         ELSE IF lx[4].k # COMMA THEN [ok |-> FALSE, pairs |-> <<>>]
         ELSE LET rest == Members(SubSeq(lx, 5, Len(lx)))
              IN  [ok |-> rest.ok, pairs |-> <<pair>> \o rest.pairs]

\* the dict of a list of pairs: a later pair replaces an earlier one
DictOf(pairs) ==
    [key \in {pairs[i][1] : i \in DOMAIN pairs} |->
        LET last == CHOOSE i \in DOMAIN pairs :
                       /\ pairs[i][1] = key
                       /\ \A m \in DOMAIN pairs : pairs[m][1] = key => m <= i
        IN  pairs[last][2]]

\* json.loads(ts): a str, a number ("num"), a dict, or JSONDecodeError
LoadsTokens(ts) ==
    LET lx == LexFrom(ts, 1) IN
    IF lx = <<>> \/ \E i \in DOMAIN lx : lx[i].k = "error" THEN JSONDecodeError
    ELSE IF Len(lx) = 1
    THEN IF lx[1].k \in {"str", "num"} THEN [t |-> lx[1].k, v |-> lx[1].body]
         ELSE JSONDecodeError
    ELSE IF lx[1].k = LBRACE /\ lx[Len(lx)].k = RBRACE
    THEN IF Len(lx) = 2 THEN [t |-> "dict", v |-> DictOf(<<>>)]
         ELSE LET m == Members(SubSeq(lx, 2, Len(lx) - 1))
              IN  IF m.ok THEN [t |-> "dict", v |-> DictOf(m.pairs)]
                  ELSE JSONDecodeError
    ELSE JSONDecodeError

\* {"type": "text", "text": text}
TextRecord(text) ==
    [t |-> "dict",
     v |-> DictOf(<<(<<(<<"type">>), [t |-> "str", v |-> <<"text">>]>>),
                    (<<(<<"text">>), [t |-> "str", v |-> text]>>)>>)]

\* obj['type'] = 'text' when obj has no type
WithType(obj) ==
    IF <<"type">> \in DOMAIN obj.v THEN obj
    ELSE [t |-> "dict",
          v |-> [key \in DOMAIN obj.v \cup {<<"type">>} |->
                   IF key = <<"type">> THEN [t |-> "str", v |-> <<"text">>]
                   ELSE obj.v[key]]]

\* str.isdigit()
IsDigit(ts) == ts # <<>> /\ \A i \in DOMAIN ts : ts[i] \in DigitTokens

\* the first index of token t in ts, 0 if none
FirstIndex(ts, t) ==
    IF \E i \in DOMAIN ts : ts[i] = t
    THEN CHOOSE i \in DOMAIN ts : ts[i] = t /\ \A m \in 1..(i - 1) : ts[m] # t
    ELSE 0

\* if '\t' in line and line.split('\t')[0].isdigit(): drop the line number
DropLineNumber(line) ==
    LET tab == FirstIndex(line, TAB) IN
    IF tab > 0 /\ IsDigit(SubSeq(line, 1, tab - 1))
    THEN SubSeq(line, tab + 1, Len(line))
    ELSE line

\* 'type:' in line or 'text:' in line
HasBareKey(line) ==
    \E i \in 1..(Len(line) - 1) : line[i] \in {"type", "text"} /\ line[i + 1] = COLON

\* re.search(pat, ts).group(1) for a pattern ending in "([^"]*)": the tokens
\* between the last two quotes of the leftmost match; "no match" otherwise
SearchText(ts, pat) ==
    IF \E i \in DOMAIN ts : MatchEnd(ts, i, pat, 1) > 0
    THEN LET i == CHOOSE n \in DOMAIN ts :
                     /\ MatchEnd(ts, n, pat, 1) > 0
                     /\ \A m \in 1..(n - 1) : MatchEnd(ts, m, pat, 1) = 0
             e == MatchEnd(ts, i, pat, 1)          \* the closing quote is at e - 1
             open == CHOOSE q \in i..(e - 2) :
                        ts[q] = QUOTE /\ \A m \in (q + 1)..(e - 2) : ts[m] # QUOTE
         IN  [found |-> TRUE, text |-> SubSeq(ts, open + 1, e - 2)]
    ELSE [found |-> FALSE, text |-> <<>>]

\* the except branch of the manual parser (538-550): the text is taken out
\* of the line by a regular expression, or the line is dropped
ExtractTextOfLine(line) ==
    LET quoted == SearchText(line, QuotedTextValue)
        match == IF quoted.found THEN quoted ELSE SearchText(line, BareTextValue)
    IN  IF match.found /\ Strip(match.text) # <<>>
        THEN <<TextRecord(match.text)>>
        ELSE <<>>

\* lines 518-529: the repairs of one line
RepairLine(line) ==
    LET f1 == QuoteKeys(line)
        f2 == ReSub(f1, CommaEllipsisBrace, <<SP, RBRACE>>)
        f3 == ReSub(f2, EllipsisBrace, <<SP, RBRACE>>)
        f4 == ReSub(f3, KeyWithoutValueComma, <<COMMA>>)
    IN  ReSub(f4, KeyWithoutValueBrace, <<SP, RBRACE>>)

\* one iteration of the loop of _parse_lines_manually: the records it appends
ManualLine(raw) ==
    LET stripped == Strip(raw) IN
    IF stripped = <<>> \/ IsDigit(stripped) THEN <<>>
    ELSE LET line == DropLineNumber(stripped) IN
         IF ~(StartsWith(line, <<LBRACE>>) /\ HasBareKey(line)) THEN <<>>
         ELSE LET obj == LoadsTokens(RepairLine(line)) IN
              IF obj.t = "JSONDecodeError" THEN ExtractTextOfLine(line)
              ELSE IF <<"text">> \notin DOMAIN obj.v THEN <<>>
              ELSE IF obj.v[<<"text">>].t # "str"
              THEN ExtractTextOfLine(line)      \* .strip() raises AttributeError
              ELSE IF Strip(obj.v[<<"text">>].v) # <<>> THEN <<WithType(obj)>>
              ELSE <<>>

\* the loop goes on after a line that gave nothing, whatever the reason
\* (the mutant of C15: it stops there)
RestAfterLineStop(line_records, rest) == IF line_records = <<>> THEN <<>> ELSE rest

RestAfterLine(line_records, rest) == rest

RECURSIVE ManualLines(_)
ManualLines(lines) ==
    IF lines = <<>> THEN <<>>
    ELSE LET line_records == ManualLine(Head(lines))
         IN  line_records \o RestAfterLine(line_records, ManualLines(Tail(lines)))

\* _parse_lines_manually(content)
ParseLinesManually(c) == ManualLines(SplitLines(c, <<>>))

\* lines 267-281: each line of the repaired text that is a JSON text by itself
RECURSIVE LoadLines(_)
LoadLines(lines) ==
    IF lines = <<>> THEN <<>>
    ELSE LET line == Strip(Head(lines))
             rest == LoadLines(Tail(lines))
         IN  IF line # <<>> /\ line[1] \notin DigitTokens
             THEN IF LoadsTokens(line).t # "JSONDecodeError"
                  THEN <<LoadsTokens(line)>> \o RestAfterLine(<<LoadsTokens(line)>>, rest)
                  ELSE RestAfterLine(<<>>, rest)
             ELSE rest     \* the elif is never true of a line that starts with a digit

\* lines 297-305: the items that are kept
RECURSIVE FormatItems(_)
FormatItems(items) ==
    IF items = <<>> THEN <<>>
    ELSE LET item == Head(items)
             rest == FormatItems(Tail(items))
         IN  IF item.t = "dict" /\ <<"text">> \in DOMAIN item.v THEN <<item>> \o rest
             ELSE IF item.t = "str"
             THEN <<[t |-> "dict",
                     v |-> DictOf(<<(<<(<<"text">>), item>>),
                                    (<<(<<"type">>), [t |-> "str", v |-> <<"text">>]>>)>>)]>>
                      \o rest
             ELSE rest

\* lines 248-307 of _parse_json_file: [path, result]
ParseJsonFile(text) ==
    LET c == Strip(text)
        whole == LoadsTokens(c)
        fixed_content == ReSub(QuoteKeys(c), EllipsisBrace, <<RBRACE>>)
        by_line == LoadLines(SplitLines(Strip(fixed_content), <<>>))
        fixed == LoadsTokens(fixed_content)
    IN  IF whole.t # "JSONDecodeError"
        THEN \* a single JSON text that is not a list
             [path |-> "loads",
              result |-> <<TextRecord(<<"str(json_data)">>)>>]
        ELSE IF (\E i \in DOMAIN fixed_content : fixed_content[i] = NL)
                /\ ~StartsWith(Strip(fixed_content), <<LBRACKET>>)
        THEN IF by_line # <<>>
             THEN [path |-> "by_line", result |-> FormatItems(by_line)]
             ELSE [path |-> "manual", result |-> FormatItems(ParseLinesManually(c))]
        ELSE IF fixed.t # "JSONDecodeError"
        THEN [path |-> "repaired",
              result |-> <<TextRecord(<<"str(json_data)">>)>>]
        ELSE [path |-> "manual_after_error",
              result |-> FormatItems(ParseLinesManually(c))]

\* the lines of the files of the model
Key(word) == <<QUOTE, word, QUOTE, COLON>>
Str(word) == <<QUOTE, word, QUOTE>>
LINE_JSON == <<LBRACE>> \o Key("type") \o <<SP>> \o Str("text") \o <<COMMA, SP>>
                 \o Key("text") \o <<SP>> \o Str("Q1") \o <<RBRACE>>
LINE_JS == <<LBRACE, "type", COLON, SP>> \o Str("text") \o <<COMMA, SP, "text", COLON, SP>>
                 \o Str("Q1") \o <<RBRACE>>
\* {type: "text", text: "Q1...}
LINE_ELLIPSIS_OPEN == <<LBRACE, "type", COLON, SP>> \o Str("text")
                 \o <<COMMA, SP, "text", COLON, SP, QUOTE, "Q1", ELLIPSIS, RBRACE>>
\* {type: "text", text: "Q1", ...}
LINE_ELLIPSIS_FIELD == <<LBRACE, "type", COLON, SP>> \o Str("text")
                 \o <<COMMA, SP, "text", COLON, SP>> \o Str("Q1")
                 \o <<COMMA, SP, ELLIPSIS, RBRACE>>
LINE_NUMBERED == <<"1", TAB>> \o LINE_JS
LINE_NUMBER == <<"1">>
LINE_TEXT_NUMBER == <<LBRACE, "text", COLON, SP, "1", RBRACE>>
LINE_NO_TEXT == <<LBRACE, "type", COLON, SP>> \o Str("text") \o <<RBRACE>>
LINE_WORDS == <<"Q1", SP, "text">>
LINE_BLANK == <<SP>>
FileLines == {LINE_JSON, LINE_JS, LINE_ELLIPSIS_OPEN, LINE_ELLIPSIS_FIELD,
              LINE_NUMBERED, LINE_NUMBER, LINE_TEXT_NUMBER, LINE_NO_TEXT,
              LINE_WORDS, LINE_BLANK}

RECURSIVE FilesOfLines(_)
FilesOfLines(n) ==
    IF n = 0 THEN {<<>>}
    ELSE IF n = 1 THEN FileLines
    ELSE {f \o <<NL>> \o l : f \in FilesOfLines(n - 1), l \in FileLines}

FileTexts == UNION {FilesOfLines(n) : n \in 0..MaxLines}

RecoverStart ==
    /\ rc_entry \in {"_parse_json_file", "_parse_lines_manually"}
    /\ rc_readable \in BOOLEAN
    /\ rc_entry = "_parse_lines_manually" => rc_readable
    /\ file_content \in FileTexts
    /\ rc_pc = "call"
    /\ rc_path = "none"
    /\ rc_result = <<>>

RecoverFrame == UNCHANGED <<rc_entry, rc_readable, file_content,
                            splitVars, extractVars, orchVars, mergeVars, replyVars, normVars, batchVars, defaultVars>>

\* _parse_json_file(json_file), the file is read
ParseFile ==
    /\ rc_pc = "call"
    /\ rc_entry = "_parse_json_file"
    /\ rc_readable
    /\ rc_pc' = "returned"
    /\ rc_path' = ParseJsonFile(file_content).path
    /\ rc_result' = ParseJsonFile(file_content).result
    /\ RecoverFrame

\* open or read raises: except Exception: return []
ParseFileUnreadable ==
    /\ rc_pc = "call"
    /\ rc_entry = "_parse_json_file"
    /\ ~rc_readable
    /\ rc_pc' = "returned"
    /\ rc_path' = "except"
    /\ rc_result' = <<>>
    /\ RecoverFrame

\* _parse_lines_manually(content)
ParseManually ==
    /\ rc_pc = "call"
    /\ rc_entry = "_parse_lines_manually"
    /\ rc_pc' = "returned"
    /\ rc_path' = "manual"
    /\ rc_result' = ParseLinesManually(file_content)
    /\ RecoverFrame

RecoverNext == ParseFile \/ ParseFileUnreadable \/ ParseManually

(***************************************************************************)
(* The records of a document and the questions extract returns             *)
(***************************************************************************)
\* a text record: its position in the document, len(text), and whether
\* text is empty or whitespace only (text and text.strip() is falsy)
Item(k, chars, blank) == [id |-> k, chars |-> chars, blank |-> blank]

\* a document of n records of the given text length, the last nb of them blank
Doc(n, chars, nb) == [k \in 1..n |-> Item(k, chars, k > n - nb)]

\* the shapes of the documents read, <<n, chars, nb>>: empty; on both
\* thresholds (50 valid lines among 60 records, 15000 characters); just above
\* the character threshold (one chunk); just above the line threshold (two
\* chunks); three chunks
DocShapes == {<<0, 0, 0>>, <<60, 300, 10>>, <<50, 301, 0>>, <<51, 1, 0>>,
              <<101, 1, 0>>}

\* what _parse_json_file returns for the file of a shape
ParsedFile(shape) == Doc(shape[1], shape[2], shape[3])

ABSENT == "<absent>"     \* the key is not in the dict
NULL == "<null>"         \* the value is None

\* a record of final_output_questions: content stands for the question text
\* (the k-th question extracted from chunk c of file f; c = 0 on the direct
\* path), explanation is ABSENT when model_dump(exclude_none=True) dropped it
Question(f, c, k, type, explanation) ==
    [content |-> <<f, c, k>>, type |-> type, explanation |-> explanation,
     order |-> k - 1]       \* q_dict["order"] = i, the index within this call

\* the kinds of record in the lists extract returns: a type the content-driven
\* inference leaves on a record, with or without an explanation
QuestionKinds == {<<"single", ABSENT>>, <<"multiple", "e">>, <<"short_answer", ABSENT>>}

\* the lists one extract call for chunk c of file f can return, of n questions
ExtractResultsOfLen(f, c, n) ==
    {[k \in 1..n |-> Question(f, c, k, t[k][1], t[k][2])] :
        t \in [1..n -> QuestionKinds]}

\* ... of at most budget questions
ExtractResults(f, c, budget) ==
    UNION {ExtractResultsOfLen(f, c, n) : n \in 0..Min(MaxQuestions, budget)}

\* the exception classes extract raises to the orchestrator
ExtractRaises == {"ReadError", "HTTPStatusError"}

(***************************************************************************)
(* _process_json_with_chunking: the size decision                          *)
(***************************************************************************)
MAX_DIRECT_LINES == 50       \* valid_text_lines > 50
MAX_DIRECT_CHARS == 15000    \* total_text_length > 15000
ORCH_CHUNK_CAP == 50         \* max_items_per_chunk=50 in _process_with_chunking
CHUNK_DELAY == 8             \* config.CHUNK_DELAY

\* valid_text_lines: the records whose text is not blank
ValidTextLines(d) == Cardinality({k \in 1..Len(d) : ~d[k].blank})

\* total_text_length: the sum of len(text) over the same records
RECURSIVE TotalTextLength(_)
TotalTextLength(d) ==
    IF d = <<>> THEN 0
    ELSE (IF Head(d).blank THEN 0 ELSE Head(d).chars) + TotalTextLength(Tail(d))

\* the decision on the number of records instead of valid lines: the mutant of C7
NeedsChunkingByItems(d) ==
    Len(d) > MAX_DIRECT_LINES \/ TotalTextLength(d) > MAX_DIRECT_CHARS

\* if valid_text_lines > 50 or total_text_length > 15000
NeedsChunking(d) ==
    ValidTextLines(d) > MAX_DIRECT_LINES \/ TotalTextLength(d) > MAX_DIRECT_CHARS

(***************************************************************************)
(* _process_with_chunking: result files and their merge                    *)
(***************************************************************************)
Range(s) == {s[k] : k \in 1..Len(s)}

\* Path(chunk_file).stem: the name without ".json"
Stem(name) == SubSeq(name, 1, Len(name) - Len(JSON_EXT))

\* result_file = f"{chunk_name}_result.json" (inside result_folder)
ResultFileName(chunk_file) == Stem(chunk_file) \o RESULT_SUFFIX

\* sorted(names) on strings
RECURSIVE Sorted(_)
Sorted(names) ==
    IF names = <<>> THEN <<>>
    ELSE LET m == CHOOSE x \in Range(names) :
                    \A y \in Range(names) : x = y \/ StrLess(x, y)
         IN  <<m>> \o Sorted(SelectSeq(names, LAMBDA x : x # m))

\* the questions of the named result files, loaded and concatenated in that order
RECURSIVE LoadAll(_, _)
LoadAll(names, fs) ==
    IF names = <<>> THEN <<>> ELSE fs[Head(names)] \o LoadAll(Tail(names), fs)

\* the names in a set, in some order
RECURSIVE SeqOfSet(_)
SeqOfSet(S) ==
    IF S = {} THEN <<>>
    ELSE LET x == CHOOSE x \in S : TRUE IN <<x>> \o SeqOfSet(S \ {x})

\* every result file found in the result folder is merged (the folder is
\* listed instead of result_files): the mutant of C37
MergeFolder(names, fs) ==
    IF DOMAIN fs # {} THEN LoadAll(Sorted(SeqOfSet(DOMAIN fs)), fs) ELSE <<>>

\* step 4: for result_file in sorted(result_files): merged_questions.extend(load)
MergeResultFiles(names, fs) ==
    IF names # <<>> THEN LoadAll(Sorted(names), fs) ELSE <<>>

\* the loop stops at the first failing chunk: the mutant of C6
NextChunkAbort(jj, n) == n + 1

\* the failed chunk is tried again: the mutant of C36
NextChunkRetry(jj, n) == jj

\* continue: the for loop over chunk_files goes on with the next chunk
NextChunkAfterError(jj, n) == jj + 1

\* any(net_err in error_type for net_err in ["ReadError", "ConnectError",
\* "TimeoutException"]), over the class names of ExtractRaises
IsNetworkErrorName(error_type) ==
    error_type \in {"ReadError", "ConnectError", "TimeoutException"}

(***************************************************************************)
(* convert_json_to_questions: the final filter                             *)
(***************************************************************************)
\* only single survives: the mutant of C5
KeepsTypeSingleOnly(type) == type = "single"

\* no filter on the type: the mutant of C38
KeepsTypeAny(type) == TRUE

\* question_type in ["single", "multiple"]
KeepsType(type) == type \in {"single", "multiple"}

\* if "explanation" not in question or question["explanation"] is None
Backfill(q) ==
    IF q.explanation \in {ABSENT, NULL} THEN [q EXCEPT !.explanation = ""] ELSE q

\* the loop over all_questions building filtered_questions
RECURSIVE FilterQuestions(_)
FilterQuestions(qs) ==
    IF qs = <<>> THEN <<>>
    ELSE IF KeepsType(Head(qs).type)
         THEN <<Backfill(Head(qs))>> \o FilterQuestions(Tail(qs))
         ELSE FilterQuestions(Tail(qs))

(***************************************************************************)
(* The orchestrator: convert_json_to_questions over a batch of files       *)
(***************************************************************************)
EmptyFolder == [n \in {} |-> <<>>]

RECURSIVE CountQuestions(_)
CountQuestions(outcomes) ==
    IF outcomes = <<>> THEN 0
    ELSE Len(Head(outcomes).questions) + CountQuestions(Tail(outcomes))

\* questions extracted so far in this run, and how many more the bound allows
Extracted ==
    Len(all_questions)
    + (IF pc \in {"chunk_loop", "chunk_call"} THEN CountQuestions(chunk_outcome) ELSE 0)
Budget == MaxTotal - Extracted

OrchStart ==
    /\ file_idx = 1
    /\ pc = "files"
    /\ json_data = <<>>
    /\ temp_json_file = FALSE
    /\ chunk_files = <<>>
    /\ j = 0
    /\ result_files = <<>>
    /\ result_fs = EmptyFolder
    /\ all_questions = <<>>
    /\ filtered_questions = <<>>
    /\ output_file = "unwritten"
    /\ o_slept = 0
    /\ doc_path = [path |-> "none", chunks_written |-> 0]
    /\ extract_calls = <<>>
    /\ chunk_outcome = <<>>
    /\ file_questions = [outcome |-> "none", questions |-> <<>>]

OrchFrame == UNCHANGED <<splitVars, extractVars, mergeVars, replyVars, recoverVars, normVars, batchVars, defaultVars>>

\* the for loop over json_files takes the next file (the batch holds 1..MaxFiles
\* files; the content of a file is drawn when _parse_json_file reads it)
HasNextFile == pc = "files" /\ file_idx <= MaxFiles

\* json_data = await self._parse_json_file(json_file); if not json_data: continue
SkipEmptyFile ==
    /\ HasNextFile
    /\ \E shape \in DocShapes :
         /\ ParsedFile(shape) = <<>>
         /\ json_data' = ParsedFile(shape)
    /\ file_idx' = file_idx + 1
    /\ doc_path' = [path |-> "SKIPPED", chunks_written |-> 0]
    /\ file_questions' = [outcome |-> "skipped", questions |-> <<>>]
    /\ extract_calls' = <<>>
    /\ o_slept' = 0
    /\ UNCHANGED <<pc, temp_json_file, chunk_files, j, result_files, result_fs,
                   all_questions, filtered_questions, output_file, chunk_outcome>>
    /\ OrchFrame

\* _process_json_with_chunking, else branch: extract is called on the whole json_data
StartDirect ==
    /\ HasNextFile
    /\ \E shape \in DocShapes :
         /\ ParsedFile(shape) # <<>>
         /\ ~NeedsChunking(ParsedFile(shape))
         /\ json_data' = ParsedFile(shape)
    /\ extract_calls' = <<[chunk |-> 0, input |-> json_data']>>
    /\ doc_path' = [path |-> "SMALL_DIRECT", chunks_written |-> 0]
    /\ pc' = "direct"
    /\ o_slept' = 0
    /\ UNCHANGED <<file_idx, temp_json_file, chunk_files, j, result_files, result_fs,
                   all_questions, filtered_questions, output_file, chunk_outcome,
                   file_questions>>
    /\ OrchFrame

\* the direct call returns questions (or nothing); convert extends all_questions
DirectReturns ==
    /\ pc = "direct"
    /\ \E r \in ExtractResults(file_idx, 0, Budget) :
         /\ file_questions' = [outcome |-> "returned", questions |-> r]
         /\ all_questions' = all_questions \o r
    /\ file_idx' = file_idx + 1
    /\ pc' = "files"
    /\ o_slept' = 0
    /\ UNCHANGED <<json_data, temp_json_file, chunk_files, j, result_files, result_fs,
                   filtered_questions, output_file, doc_path, extract_calls,
                   chunk_outcome>>
    /\ OrchFrame

\* the exception of the direct call leaves convert_json_to_questions: the
\* mutant of C24
DirectRaisesAborts ==
    /\ pc = "direct"
    /\ file_questions' = [outcome |-> "raised", questions |-> <<>>]
    /\ pc' = "aborted"
    /\ o_slept' = 0
    /\ UNCHANGED <<file_idx, json_data, temp_json_file, chunk_files, j, result_files,
                   result_fs, all_questions, filtered_questions, output_file,
                   doc_path, extract_calls, chunk_outcome>>
    /\ OrchFrame

\* the direct call raises: re-raised, caught by convert's except Exception, continue
DirectRaises ==
    /\ pc = "direct"
    /\ \E e \in ExtractRaises :
         file_questions' = [outcome |-> "raised", questions |-> <<>>]
    /\ file_idx' = file_idx + 1
    /\ pc' = "files"
    /\ o_slept' = 0
    /\ UNCHANGED <<json_data, temp_json_file, chunk_files, j, result_files, result_fs,
                   all_questions, filtered_questions, output_file, doc_path,
                   extract_calls, chunk_outcome>>
    /\ OrchFrame

\* _process_with_chunking, steps 1 and 2: the temporary file is written and split
\* (json_data is not empty here, so chunk_files is not empty)
StartChunked ==
    /\ HasNextFile
    /\ \E shape \in DocShapes :
         /\ ParsedFile(shape) # <<>>
         /\ NeedsChunking(ParsedFile(shape))
         /\ json_data' = ParsedFile(shape)
    /\ temp_json_file' = TRUE
    /\ chunk_files' = SplitJsonWithFolder(json_data', ORCH_CHUNK_CAP)
    /\ extract_calls' = <<>>
    /\ doc_path' = [path |-> "CHUNKED", chunks_written |-> Len(chunk_files')]
    /\ result_files' = <<>>
    /\ result_fs' = EmptyFolder
    /\ chunk_outcome' = <<>>
    /\ j' = 1
    /\ pc' = "chunk_loop"
    /\ o_slept' = 0
    /\ UNCHANGED <<file_idx, all_questions, filtered_questions, output_file,
                   file_questions>>
    /\ OrchFrame

\* the call on the next chunk starts while an earlier one is awaited (the
\* calls gathered instead of awaited one by one): the mutant of C26
ChunkCallConcurrent ==
    /\ pc \in {"chunk_loop", "chunk_call"}
    /\ Len(extract_calls) < Len(chunk_files)
    /\ extract_calls' = Append(extract_calls,
           [chunk |-> Len(extract_calls) + 1,
            input |-> chunk_files[Len(extract_calls) + 1].chunk])
    /\ pc' = "chunk_call"
    /\ o_slept' = 0
    /\ UNCHANGED <<file_idx, json_data, temp_json_file, chunk_files, j, result_files,
                   result_fs, all_questions, filtered_questions, output_file,
                   doc_path, chunk_outcome, file_questions>>
    /\ OrchFrame

\* step 3, one iteration: the chunk is loaded and extract is called on it
ChunkCall ==
    /\ pc = "chunk_loop"
    /\ j <= Len(chunk_files)
    /\ extract_calls' = Append(extract_calls, [chunk |-> j, input |-> chunk_files[j].chunk])
    /\ pc' = "chunk_call"
    /\ o_slept' = 0
    /\ UNCHANGED <<file_idx, json_data, temp_json_file, chunk_files, j, result_files,
                   result_fs, all_questions, filtered_questions, output_file,
                   doc_path, chunk_outcome, file_questions>>
    /\ OrchFrame

\* extract returned: a non-empty list is dumped to the chunk's result file; the
\* inter-chunk delay is slept unless this was the last chunk
ChunkReturns ==
    /\ pc = "chunk_call"
    /\ \E r \in ExtractResults(file_idx, j, Budget) :
         /\ chunk_outcome' = Append(chunk_outcome,
                [outcome |-> IF r # <<>> THEN "ok" ELSE "empty", questions |-> r])
         /\ IF r # <<>>
            THEN LET result_file == ResultFileName(chunk_files[j].name)
                 IN  /\ result_fs' = (result_file :> r) @@ result_fs
                     /\ result_files' = Append(result_files, result_file)
            ELSE UNCHANGED <<result_fs, result_files>>
    /\ o_slept' = IF j < Len(chunk_files) THEN CHUNK_DELAY ELSE 0
    /\ j' = j + 1
    /\ pc' = "chunk_loop"
    /\ UNCHANGED <<file_idx, json_data, temp_json_file, chunk_files, all_questions,
                   filtered_questions, output_file, doc_path, extract_calls,
                   file_questions>>
    /\ OrchFrame

\* extract raised: except Exception as api_error; a network error name sleeps
\* NETWORK_ERROR_DELAY; continue
ChunkRaises ==
    /\ pc = "chunk_call"
    /\ \E e \in ExtractRaises :
         /\ chunk_outcome' = Append(chunk_outcome, [outcome |-> "raised", questions |-> <<>>])
         /\ o_slept' = IF IsNetworkErrorName(e) THEN NETWORK_ERROR_DELAY ELSE 0
    /\ j' = NextChunkAfterError(j, Len(chunk_files))
    /\ pc' = "chunk_loop"
    /\ UNCHANGED <<file_idx, json_data, temp_json_file, chunk_files, result_files,
                   result_fs, all_questions, filtered_questions, output_file,
                   doc_path, extract_calls, file_questions>>
    /\ OrchFrame

\* step 4 and the finally clause: the result files are merged, the temporary
\* file is removed; convert extends all_questions with the returned list
MergeResults ==
    /\ pc = "chunk_loop"
    /\ j > Len(chunk_files)
    /\ LET merged_questions == MergeResultFiles(result_files, result_fs)
       IN  /\ file_questions' = [outcome |-> "returned", questions |-> merged_questions]
           /\ all_questions' = all_questions \o merged_questions
    /\ temp_json_file' = FALSE
    /\ file_idx' = file_idx + 1
    /\ pc' = "files"
    /\ o_slept' = 0
    /\ UNCHANGED <<json_data, chunk_files, j, result_files, result_fs,
                   filtered_questions, output_file, doc_path, extract_calls,
                   chunk_outcome>>
    /\ OrchFrame

\* after the loop over json_files (at least one file): filter, backfill, dump
\* to output_file, return
FinalFilter ==
    /\ pc = "files"
    /\ file_idx > 1
    /\ filtered_questions' = FilterQuestions(all_questions)
    /\ output_file' = FilterQuestions(all_questions)
    /\ pc' = "done"
    /\ o_slept' = 0
    /\ UNCHANGED <<file_idx, json_data, temp_json_file, chunk_files, j, result_files,
                   result_fs, all_questions, doc_path, extract_calls, chunk_outcome,
                   file_questions>>
    /\ OrchFrame

OrchNext ==
    \/ SkipEmptyFile
    \/ StartDirect
    \/ DirectReturns
    \/ DirectRaises
    \/ StartChunked
    \/ ChunkCall
    \/ ChunkReturns
    \/ ChunkRaises
    \/ MergeResults
    \/ FinalFilter

(***************************************************************************)
(* _process_with_chunking on its own (main.py 373-497): the temporary file *)
(* is written before the try statement whose finally clause removes it.    *)
(***************************************************************************)
\* finally: if os.path.exists(temp_json_file): os.remove(temp_json_file)
RemoveTempFile(exists) == FALSE

\* os.makedirs(result_folder, exist_ok=True): the result folder may hold the
\* result files an earlier run wrote for the chunks of S (one question each,
\* marked with file index 0)
StaleChunks == 1..3
StaleFolder(S) ==
    [n \in {ResultFileName(ChunkFilename(c - 1)) : c \in S} |->
        LET c == CHOOSE c \in S : ResultFileName(ChunkFilename(c - 1)) = n
        IN  <<Question(0, c, 1, "single", ABSENT)>>]

ChunkingStart ==
    /\ file_idx = 1
    /\ pc = "pwc_call"
    /\ json_data \in {ParsedFile(shape) : shape \in DocShapes}
    /\ temp_json_file = FALSE
    /\ chunk_files = <<>>
    /\ j = 0
    /\ result_files = <<>>
    /\ result_fs \in {StaleFolder(S) : S \in SUBSET StaleChunks}
    /\ all_questions = <<>>
    /\ filtered_questions = <<>>
    /\ output_file = "unwritten"
    /\ o_slept = 0
    /\ doc_path = [path |-> "CHUNKED", chunks_written |-> 0]
    /\ extract_calls = <<>>
    /\ chunk_outcome = <<>>
    /\ file_questions = [outcome |-> "none", questions |-> <<>>]

\* with open(temp_json_file, 'w', encoding='utf-8') as f: json.dump(json_data, f, ...)
WriteTempFile ==
    /\ pc = "pwc_call"
    /\ temp_json_file' = TRUE
    /\ pc' = "pwc_split"
    /\ o_slept' = 0
    /\ UNCHANGED <<file_idx, json_data, chunk_files, j, result_files, result_fs,
                   all_questions, filtered_questions, output_file, doc_path,
                   extract_calls, chunk_outcome, file_questions>>
    /\ OrchFrame

\* open() has created the file and json.dump raises while it writes (a text
\* with a lone surrogate, decoded from a \ud83d escape of the document, cannot
\* be encoded as UTF-8): the statement is before the try, the exception
\* leaves the method
WriteTempFileRaises ==
    /\ pc = "pwc_call"
    /\ json_data # <<>>
    /\ temp_json_file' = TRUE
    /\ file_questions' = [outcome |-> "raised", questions |-> <<>>]
    /\ pc' = "pwc_raised"
    /\ o_slept' = 0
    /\ UNCHANGED <<file_idx, json_data, chunk_files, j, result_files, result_fs,
                   all_questions, filtered_questions, output_file, doc_path,
                   extract_calls, chunk_outcome>>
    /\ OrchFrame

\* the empty chunk list is not tested: extract is called on an empty chunk
\* (the mutant of C31)
SplitYieldsNothingCallsExtract ==
    /\ pc = "pwc_split"
    /\ SplitJsonWithFolder(json_data, ORCH_CHUNK_CAP) = <<>>
    /\ extract_calls' = Append(extract_calls, [chunk |-> 1, input |-> <<>>])
    /\ file_questions' = [outcome |-> "returned", questions |-> <<>>]
    /\ temp_json_file' = RemoveTempFile(temp_json_file)
    /\ pc' = "pwc_returned"
    /\ o_slept' = 0
    /\ UNCHANGED <<file_idx, json_data, chunk_files, j, result_files, result_fs,
                   all_questions, filtered_questions, output_file, doc_path,
                   chunk_outcome>>
    /\ OrchFrame

\* if not chunk_files: return [], then the finally clause
SplitYieldsNothing ==
    /\ pc = "pwc_split"
    /\ SplitJsonWithFolder(json_data, ORCH_CHUNK_CAP) = <<>>
    /\ file_questions' = [outcome |-> "returned", questions |-> <<>>]
    /\ temp_json_file' = RemoveTempFile(temp_json_file)
    /\ pc' = "pwc_returned"
    /\ o_slept' = 0
    /\ UNCHANGED <<file_idx, json_data, chunk_files, j, result_files, result_fs,
                   all_questions, filtered_questions, output_file, doc_path,
                   extract_calls, chunk_outcome>>
    /\ OrchFrame

\* split_json_with_folder or os.makedirs raises (the folders cannot be
\* written): the finally clause runs, the exception leaves the method
SplitFails ==
    /\ pc = "pwc_split"
    /\ file_questions' = [outcome |-> "raised", questions |-> <<>>]
    /\ temp_json_file' = RemoveTempFile(temp_json_file)
    /\ pc' = "pwc_raised"
    /\ o_slept' = 0
    /\ UNCHANGED <<file_idx, json_data, chunk_files, j, result_files, result_fs,
                   all_questions, filtered_questions, output_file, doc_path,
                   extract_calls, chunk_outcome>>
    /\ OrchFrame

\* the split returned chunk files: the chunk loop starts
SplitYieldsChunks ==
    /\ pc = "pwc_split"
    /\ SplitJsonWithFolder(json_data, ORCH_CHUNK_CAP) # <<>>
    /\ chunk_files' = SplitJsonWithFolder(json_data, ORCH_CHUNK_CAP)
    /\ doc_path' = [path |-> "CHUNKED", chunks_written |-> Len(chunk_files')]
    /\ j' = 1
    /\ pc' = "chunk_loop"
    /\ o_slept' = 0
    /\ UNCHANGED <<file_idx, json_data, temp_json_file, result_files, result_fs,
                   all_questions, filtered_questions, output_file, extract_calls,
                   chunk_outcome, file_questions>>
    /\ OrchFrame

\* asyncio.CancelledError (a BaseException) is raised at the await of the
\* extract call (422) or of a sleep that follows it (451, 465): no except
\* Exception clause catches it, the finally clause runs
Interrupted ==
    /\ pc = "chunk_call"
    /\ \E at \in {"network wait", "sleep"} :
          chunk_outcome' = Append(chunk_outcome,
                                  [outcome |-> "cancelled", questions |-> <<>>])
    /\ file_questions' = [outcome |-> "cancelled", questions |-> <<>>]
    /\ temp_json_file' = RemoveTempFile(temp_json_file)
    /\ pc' = "pwc_cancelled"
    /\ o_slept' = 0
    /\ UNCHANGED <<file_idx, json_data, chunk_files, j, result_files, result_fs,
                   all_questions, filtered_questions, output_file, doc_path,
                   extract_calls>>
    /\ OrchFrame

\* step 4: return merged_questions (or []), then the finally clause
ChunkingReturns ==
    /\ pc = "chunk_loop"
    /\ j > Len(chunk_files)
    /\ file_questions' = [outcome |-> "returned",
                          questions |-> MergeResultFiles(result_files, result_fs)]
    /\ temp_json_file' = RemoveTempFile(temp_json_file)
    /\ pc' = "pwc_returned"
    /\ o_slept' = 0
    /\ UNCHANGED <<file_idx, json_data, chunk_files, j, result_files, result_fs,
                   all_questions, filtered_questions, output_file, doc_path,
                   extract_calls, chunk_outcome>>
    /\ OrchFrame

ChunkingNext ==
    \/ WriteTempFile
    \/ WriteTempFileRaises
    \/ SplitYieldsNothing
    \/ SplitFails
    \/ SplitYieldsChunks
    \/ ChunkCall
    \/ ChunkReturns
    \/ ChunkRaises
    \/ Interrupted
    \/ ChunkingReturns

(***************************************************************************)
(* Step 4 of _process_with_chunking, from the state the chunk loop leaves  *)
(* for a document whose chunks with the probed indexes returned questions  *)
(***************************************************************************)
\* 10^e
RECURSIVE Pow10(_)
Pow10(e) == IF e = 0 THEN 1 ELSE 10 * Pow10(e - 1)

\* the chunk indexes probed: both sides of every power of ten
ChunkProbes == UNION {{Pow10(e) - 1, Pow10(e)} : e \in 1..MaxIndexDigits}

\* the indexes of a set in ascending order: the order of the chunk loop
RECURSIVE Ascending(_)
Ascending(S) ==
    IF S = {} THEN <<>>
    ELSE LET m == CHOOSE x \in S : \A y \in S : x <= y
         IN  <<m>> \o Ascending(S \ {m})

\* the result file of the chunk of 1-based index c
ResultFileOfChunk(c) == ResultFileName(ChunkFilename(c - 1))

\* the result folder after the chunks of S returned one question each
FolderOf(S) ==
    [n \in {ResultFileOfChunk(c) : c \in S} |->
        LET c == CHOOSE c \in S : ResultFileOfChunk(c) = n
        IN  <<Question(1, c, 1, "single", ABSENT)>>]

MergeStart ==
    /\ \E S \in SUBSET ChunkProbes :
         /\ Cardinality(S) <= 3
         /\ m_result_files = [k \in 1..Cardinality(S) |-> ResultFileOfChunk(Ascending(S)[k])]
         /\ m_result_fs = FolderOf(S)
    /\ m_pc = "merge"
    /\ m_merged = <<>>

MergeFrame == UNCHANGED <<m_result_files, m_result_fs, splitVars, extractVars, orchVars, replyVars, recoverVars, normVars, batchVars, defaultVars>>

\* if result_files: the sorted result files are loaded and concatenated
MergeSome ==
    /\ m_pc = "merge"
    /\ m_result_files # <<>>
    /\ m_merged' = MergeResultFiles(m_result_files, m_result_fs)
    /\ m_pc' = "returned"
    /\ MergeFrame

\* else: return []
MergeNone ==
    /\ m_pc = "merge"
    /\ m_result_files = <<>>
    /\ m_merged' = <<>>
    /\ m_pc' = "returned"
    /\ MergeFrame

MergeNext == MergeSome \/ MergeNone

(***************************************************************************)
(* One record of the reply: validation (296-310), normalization (312-405), *)
(* output (407-467), then the final filter of main.py (213-226).           *)
(***************************************************************************)
MULTI_MARKER == "[duoxuan]"       \* the multiple-choice marker in the content
JUDGMENT_MARKER == "[panduan]"    \* the judgment marker in the content
CORRECT == "zhengque"             \* the word "correct" of a judgment option
WRONG == "cuowu"                  \* the word "incorrect" of a judgment option

Absent == [t |-> "absent", v |-> "None"]     \* the key is not in q_data

\* config.QUESTION_TYPE_MAP.get(chinese_type.strip(), "unknown"); the keys
\* are the Chinese names of the types
GetQuestionType(chinese_type) ==
    CASE chinese_type \in {"danxuan", "danxuanti"} -> "single"
      [] chinese_type \in {"duoxuan", "duoxuanti"} -> "multiple"
      [] chinese_type \in {"panduan", "panduanti"} -> "true_false"
      [] chinese_type = "tiankongti" -> "fill_in_the_blank"
      [] chinese_type = "jiandati" -> "short_answer"
      [] chinese_type = "jisuanti" -> "calculation"
      [] OTHER -> "unknown"

\* the mutant of C17: any value that is not a list is wrapped
CoerceWrapsAny(a) ==
    IF a.t \in {"absent", "list"} THEN a ELSE PyList(<<a.v>>)

\* lines 334-338
CoerceCorrectAnswer(a) ==
    IF a.t \in {"absent", "list"} THEN a
    ELSE IF a.t = "str" THEN PyList(<<a.v>>)
    ELSE PyList(<<>>)

\* not x, for the value of a key that may be absent (q_data.get(key))
Falsy(x) == x.t \in {"absent", "NoneType"} \/ (x.t = "list" /\ x.v = <<>>)

Option(key, words) == [key |-> key, content |-> words]

\* the pair of lines 363-366
JudgmentPair == <<Option("A", <<CORRECT>>), Option("B", <<WRONG>>)>>

\* any(word in opt.get("content", "") for opt in options)
HasOptionWith(options, word) ==
    \E i \in DOMAIN options : \E n \in DOMAIN options[i].content :
        options[i].content[n] = word

\* the mutant of C20: the pair is never synthesized
NeedsPairNever(options) == FALSE

\* if not has_correct_option or not has_wrong_option
NeedsPair(options) ==
    ~HasOptionWith(options, CORRECT) \/ ~HasOptionWith(options, WRONG)

\* text in content_text
HasMarker(content_text, marker) ==
    \E i \in DOMAIN content_text : content_text[i] = marker

\* lines 351-367: the options after the handling of a judgment question
JudgmentOptions(content_text, options) ==
    IF HasMarker(content_text, JUDGMENT_MARKER)
    THEN LET present == IF Falsy(options) THEN <<>> ELSE options.v
         IN  IF NeedsPair(present) THEN PyList(JudgmentPair) ELSE PyList(present)
    ELSE options

\* the mutant of C18: the number of answers is looked at before the marker
InferTypeByAnswersFirst(content_text, correct_answer, options) ==
    LET correct_answers == IF correct_answer.t = "absent" THEN <<>> ELSE correct_answer.v
    IN  IF Len(correct_answers) > 1 THEN "multiple"
        ELSE IF Falsy(options) THEN "short_answer"
        ELSE IF HasMarker(content_text, MULTI_MARKER) THEN "multiple"
        ELSE "single"

\* a record without options stays single: the mutant of C29
InferTypeNoDowngrade(content_text, correct_answer, options) ==
    IF HasMarker(content_text, MULTI_MARKER) THEN "multiple"
    ELSE LET correct_answers == IF correct_answer.t = "absent" THEN <<>>
                                ELSE correct_answer.v
         IN  IF Len(correct_answers) > 1 THEN "multiple" ELSE "single"

\* lines 370-383
InferType(content_text, correct_answer, options) ==
    IF HasMarker(content_text, MULTI_MARKER) THEN "multiple"
    ELSE LET correct_answers == IF correct_answer.t = "absent" THEN <<>>
                                ELSE correct_answer.v
         IN  IF Len(correct_answers) > 1 THEN "multiple"
             ELSE IF Falsy(options) THEN "short_answer"
             ELSE "single"

\* lines 386-387, then MongoQuestion(**q_data) and
\* model_dump(exclude_none=True): options that are None are not in q_dict
DumpOptions(type, options) ==
    IF type \in {"fill_in_the_blank", "short_answer"} \/ options.t \in {"absent", "NoneType"}
    THEN Absent
    ELSE options

\* correctAnswer: List[str] = Field(default_factory=list)
DumpCorrectAnswer(a) == IF a.t = "absent" THEN PyList(<<>>) ELSE a

\* the type is inferred only for a record without a "type" key, a translated
\* type is kept: the mutant of C35
NormalizeRecordKeepsMapped(q) ==
    LET correct_answer == CoerceCorrectAnswer(q.correctAnswer)
        options == JudgmentOptions(q.content, q.options)
        type == IF q.type.t = "str" THEN GetQuestionType(q.type.v)
                ELSE InferType(q.content, correct_answer, options)
    IN  [content |-> q.content,
         type |-> type,
         options |-> DumpOptions(type, options),
         correctAnswer |-> DumpCorrectAnswer(correct_answer)]

\* lines 333-383 on a record whose "type" is absent or a string
NormalizeRecord(q) ==
    LET correct_answer == CoerceCorrectAnswer(q.correctAnswer)
        \* if "type" in q_data: q_data["type"] = map_type_to_english(q_data["type"])
        mapped_type == IF q.type.t = "str" THEN GetQuestionType(q.type.v) ELSE "absent"
        options == JudgmentOptions(q.content, q.options)
        \* "content" is in every record that passed the validation, so the
        \* inferred type replaces the mapped one
        type == IF q.content # <<>> THEN InferType(q.content, correct_answer, options)
                ELSE mapped_type
    IN  [content |-> q.content,
         type |-> type,
         options |-> DumpOptions(type, options),
         correctAnswer |-> DumpCorrectAnswer(correct_answer)]

NoRecord == [content |-> <<>>, type |-> "None", options |-> Absent,
             correctAnswer |-> Absent]

\* the raw records of the model (the values of a key are listed in a
\* sequence: they are of different Python types)
RawContents == {<<>>, <<"q">>, <<JUDGMENT_MARKER, "q">>, <<MULTI_MARKER, "q">>,
                <<MULTI_MARKER, JUDGMENT_MARKER, "q">>}
RawTypes == <<Absent, PyNone, PyStr("panduanti"), PyStr("single"), PyStr("tiankongti"),
             PyStr("jisuanti")>>
RawOptions ==
    <<Absent, PyNone, PyList(<<>>),
     PyList(<<Option("A", <<"x">>), Option("B", <<"y">>)>>),
     PyList(<<Option("A", <<CORRECT>>)>>),
     PyList(<<Option("A", <<CORRECT>>), Option("B", <<WRONG>>)>>),
     PyList(<<Option("A", <<WRONG>>), Option("B", <<CORRECT>>)>>),
     PyList(<<Option("A", <<CORRECT>>), Option("B", <<WRONG>>), Option("C", <<"x">>)>>)>>
AnswerKeys == <<"A", "B", "C", "D">>
RawAnswers ==
    <<Absent, PyNone, PyStr("A"), PyInt(5)>>
        \o [n \in 1..(MaxAnswers + 1) |-> PyList(SubSeq(AnswerKeys, 1, n - 1))]

NormalizeStart ==
    /\ \E c \in RawContents, ty \in DOMAIN RawTypes, o \in DOMAIN RawOptions,
          a \in DOMAIN RawAnswers :
            q_data = [content |-> c, type |-> RawTypes[ty], options |-> RawOptions[o],
                      correctAnswer |-> RawAnswers[a]]
    /\ nz_pc = "validate"
    /\ q_dict = NoRecord
    /\ nz_exc = "None"
    /\ nz_kept = FALSE

NormalizeFrame == UNCHANGED <<q_data, splitVars, extractVars, orchVars, mergeVars,
                              replyVars, recoverVars, batchVars, defaultVars>>

\* if "content" not in q_data or not q_data["content"]: continue
SkipWithoutContent ==
    /\ nz_pc = "validate"
    /\ q_data.content = <<>>
    /\ nz_pc' = "skipped"
    /\ UNCHANGED <<q_dict, nz_exc, nz_kept>>
    /\ NormalizeFrame

\* valid_questions.append(q_data)
ValidRecord ==
    /\ nz_pc = "validate"
    /\ q_data.content # <<>>
    /\ nz_pc' = "normalize"
    /\ UNCHANGED <<q_dict, nz_exc, nz_kept>>
    /\ NormalizeFrame

\* map_type_to_english(None): None.strip() raises AttributeError, caught by
\* except Exception at 403: continue
NormalizeRaises ==
    /\ nz_pc = "normalize"
    /\ q_data.type.t = "NoneType"
    /\ nz_pc' = "skipped"
    /\ nz_exc' = "AttributeError"
    /\ UNCHANGED <<q_dict, nz_kept>>
    /\ NormalizeFrame

\* the record is normalized, validated and put in final_output_questions
NormalizeEmits ==
    /\ nz_pc = "normalize"
    /\ q_data.type.t # "NoneType"
    /\ nz_pc' = "emitted"
    /\ q_dict' = NormalizeRecord(q_data)
    /\ UNCHANGED <<nz_exc, nz_kept>>
    /\ NormalizeFrame

\* main.py 213-226: the final filter on the emitted record
FilterEmitted ==
    /\ nz_pc = "emitted"
    /\ nz_pc' = "filtered"
    /\ nz_kept' = KeepsType(q_dict.type)
    /\ UNCHANGED <<q_dict, nz_exc>>
    /\ NormalizeFrame

NormalizeNext ==
    \/ SkipWithoutContent
    \/ ValidRecord
    \/ NormalizeRaises
    \/ NormalizeEmits
    \/ FilterEmitted

(***************************************************************************)
(* The records of one reply, as a batch: the validation loop (296-310),    *)
(* the normalization loop (312-405) and the output loop (407-467).         *)
(***************************************************************************)
\* an element of questions_data: kind is the Python type of the element; a
\* dict carries its keys as tagged values (Absent: the key is not there)
RawItem(kind, c, ty, o, a) ==
    [kind |-> kind, content |-> c, type |-> ty, options |-> o, correctAnswer |-> a]

\* the text of a content, as a tagged value
Text(words) == [t |-> "str", v |-> words]

TwoOptions == PyList(<<Option("A", <<"x">>), Option("B", <<"y">>)>>)

\* the elements a reply can hold (listed in a sequence: their values are of
\* different Python types)
BatchItems ==
    <<RawItem("str", Absent, Absent, Absent, Absent),                    \* "abc"
      RawItem("dict", Absent, Absent, TwoOptions, PyList(<<"A">>)),     \* no content
      RawItem("dict", Text(<<>>), Absent, TwoOptions, PyList(<<"A">>)), \* content ""
      RawItem("dict", PyInt(5), Absent, TwoOptions, PyList(<<"A">>)),   \* content 5
      RawItem("dict", PyList(<<"q">>), Absent, TwoOptions, PyList(<<"A">>)),
      RawItem("dict", Text(<<"q1">>), PyStr("ziyou"), TwoOptions, PyStr("A")),
      RawItem("dict", Text(<<"q2">>), PyNone, TwoOptions, PyList(<<"A">>)),
      RawItem("dict", Text(<<"q3">>), Absent, PyStr("abc"), PyList(<<"A">>)),
      RawItem("dict", Text(<<MULTI_MARKER, "q4">>), Absent, TwoOptions,
              PyList(<<"A", "B">>)),
      RawItem("dict", Text(<<JUDGMENT_MARKER, "q5">>), Absent, Absent, PyInt(5))>>

\* not q_data["content"], for a key that may be absent
ContentFalsy(c) ==
    \/ c.t \in {"absent", "NoneType"}
    \/ (c.t \in {"str", "list"} /\ c.v = <<>>)
    \/ (c.t = "int" /\ c.v = 0)

\* lines 299-305: the record is appended to valid_questions
IsValidItem(r) == r.kind = "dict" /\ ~ContentFalsy(r.content)

\* what lines 316-395 raise on a record of valid_questions ("None": nothing):
\* map_type_to_english calls strip() on the value of "type" (342); the marker
\* tests are "in" tests on the content (351, 370); the option tests call
\* get() on every element of the options of a judgment question (358)
NormalizeException(r) ==
    IF r.type.t \notin {"absent", "str"} THEN "AttributeError"
    ELSE IF r.content.t \in {"int", "bool"} THEN "TypeError"
    ELSE IF /\ HasMarker(r.content.v, JUDGMENT_MARKER)
            /\ r.options.t = "str"
            /\ r.options.v # ""
         THEN "AttributeError"
    ELSE "None"

\* lines 333-395 on such a record: the keys of q_data handed to MongoQuestion
NormalizedItem(r) ==
    NormalizeRecord([content |-> r.content.v, type |-> r.type,
                     options |-> r.options, correctAnswer |-> r.correctAnswer])

\* every record passes the schema: the mutant of C21
PassesSchemaAlways(r, n) == TRUE

\* MongoQuestion(**q_data) raises no ValidationError: content: str,
\* options: Optional[List[MongoOption]], correctAnswer: List[str]
PassesSchema(r, n) ==
    /\ r.content.t = "str"
    /\ n.options.t \in {"absent", "NoneType", "list"}
    /\ n.correctAnswer.t = "list"

\* the loop stops at the first record that raises: the mutant of C22
NextRecordAbort(i, n) == n + 1

\* continue: the for loop over questions_data goes on with the next record
NextRecordAfterError(i, n) == i + 1

\* lines 408-467 for the i-th (0-based) element of validated_questions
OutputRecord(e, i) ==
    [src |-> e.src, content |-> e.content, type |-> e.q.type,
     options |-> e.q.options, correctAnswer |-> e.q.correctAnswer, order |-> i]

BatchesOfLen(n) == [1..n -> DOMAIN BatchItems]

BatchStart ==
    /\ \E n \in 1..MaxBatch : \E pick \in BatchesOfLen(n) :
          bt_questions_data = [k \in 1..n |-> BatchItems[pick[k]]]
    /\ bt_pc = "validate"
    /\ bt_i = 1
    /\ valid_questions = <<>>
    /\ validated_questions = <<>>
    /\ final_output_questions = <<>>
    /\ bt_skipped = <<>>

BatchFrame == UNCHANGED <<bt_questions_data, splitVars, extractVars, orchVars,
                          mergeVars, replyVars, recoverVars, normVars, defaultVars>>

\* the validation loop ends; the normalization loop starts
AfterValidate(i) ==
    IF i > Len(bt_questions_data) THEN [pc |-> "normalize", i |-> 1]
    ELSE [pc |-> "validate", i |-> i]

\* if not isinstance(q_data, dict): continue
\* if "content" not in q_data or not q_data["content"]: continue
ValidateSkips ==
    /\ bt_pc = "validate"
    /\ bt_i <= Len(bt_questions_data)
    /\ ~IsValidItem(bt_questions_data[bt_i])
    /\ bt_skipped' = Append(bt_skipped,
           [src |-> bt_i,
            why |-> IF bt_questions_data[bt_i].kind # "dict" THEN "not a dict"
                    ELSE "no content"])
    /\ bt_pc' = AfterValidate(bt_i + 1).pc
    /\ bt_i' = AfterValidate(bt_i + 1).i
    /\ UNCHANGED <<valid_questions, validated_questions, final_output_questions>>
    /\ BatchFrame

\* valid_questions.append(q_data)
ValidateKeeps ==
    /\ bt_pc = "validate"
    /\ bt_i <= Len(bt_questions_data)
    /\ IsValidItem(bt_questions_data[bt_i])
    /\ valid_questions' = Append(valid_questions, bt_i)
    /\ bt_pc' = AfterValidate(bt_i + 1).pc
    /\ bt_i' = AfterValidate(bt_i + 1).i
    /\ UNCHANGED <<validated_questions, final_output_questions, bt_skipped>>
    /\ BatchFrame

\* the record of the normalization loop: valid_questions holds the positions
\* in questions_data of the records it kept
CurrentRecord == bt_questions_data[valid_questions[bt_i]]

\* except Exception as e: continue
NormalizeSkipsRaising ==
    /\ bt_pc = "normalize"
    /\ bt_i <= Len(valid_questions)
    /\ NormalizeException(CurrentRecord) # "None"
    /\ bt_skipped' = Append(bt_skipped,
           [src |-> valid_questions[bt_i], why |-> NormalizeException(CurrentRecord)])
    /\ bt_i' = NextRecordAfterError(bt_i, Len(valid_questions))
    /\ UNCHANGED <<bt_pc, valid_questions, validated_questions, final_output_questions>>
    /\ BatchFrame

\* except ValidationError as e: continue
NormalizeSkipsInvalid ==
    /\ bt_pc = "normalize"
    /\ bt_i <= Len(valid_questions)
    /\ NormalizeException(CurrentRecord) = "None"
    /\ ~PassesSchema(CurrentRecord, NormalizedItem(CurrentRecord))
    /\ bt_skipped' = Append(bt_skipped,
           [src |-> valid_questions[bt_i], why |-> "ValidationError"])
    /\ bt_i' = NextRecordAfterError(bt_i, Len(valid_questions))
    /\ UNCHANGED <<bt_pc, valid_questions, validated_questions, final_output_questions>>
    /\ BatchFrame

\* validated_questions.append(MongoQuestion(**q_data))
NormalizeAppends ==
    /\ bt_pc = "normalize"
    /\ bt_i <= Len(valid_questions)
    /\ NormalizeException(CurrentRecord) = "None"
    /\ PassesSchema(CurrentRecord, NormalizedItem(CurrentRecord))
    /\ validated_questions' = Append(validated_questions,
           [src |-> valid_questions[bt_i], content |-> CurrentRecord.content,
            q |-> NormalizedItem(CurrentRecord)])
    /\ bt_i' = bt_i + 1
    /\ UNCHANGED <<bt_pc, valid_questions, final_output_questions, bt_skipped>>
    /\ BatchFrame

\* the output loop over validated_questions; return final_output_questions
OutputAll ==
    /\ bt_pc = "normalize"
    /\ bt_i > Len(valid_questions)
    /\ final_output_questions' =
           [k \in 1..Len(validated_questions) |->
               OutputRecord(validated_questions[k], k - 1)]
    /\ bt_pc' = "returned"
    /\ UNCHANGED <<bt_i, valid_questions, validated_questions, bt_skipped>>
    /\ BatchFrame

BatchNext ==
    \/ ValidateSkips
    \/ ValidateKeeps
    \/ NormalizeSkipsRaising
    \/ NormalizeSkipsInvalid
    \/ NormalizeAppends
    \/ OutputAll

(***************************************************************************)
(* The fields with a default: the translation of difficulty (343-344) and  *)
(* the defaulting step (391-395).                                          *)
(***************************************************************************)
\* config.DEFAULT_VALUES
DefaultValues ==
    [title |-> PyStr("DEFAULT_TITLE"), subject |-> PyStr("DEFAULT_SUBJECT"),
     module |-> PyStr("DEFAULT_MODULE"), subModule |-> PyStr(""),
     difficulty |-> PyStr("medium"), tags |-> PyList(<<"falv">>),
     isActive |-> PyBool(TRUE),
     stats |-> PyDict([totalAttempts |-> 0, correctAttempts |-> 0, accuracy |-> 0])]

\* config.DIFFICULTY_MAP.get(chinese_difficulty.strip(), "medium"); the keys
\* are the Chinese names of the levels
GetDifficulty(chinese_difficulty) ==
    CASE chinese_difficulty = "jiandan" -> "easy"
      [] chinese_difficulty = "zhongdeng" -> "medium"
      [] chinese_difficulty = "kunnan" -> "hard"
      [] OTHER -> "medium"

\* only None and a missing key count: the mutant of C30
PyFalsyNoneOnly(x) == x.t \in {"absent", "NoneType"}

\* not q_data.get(key)
PyFalsy(x) ==
    CASE x.t \in {"absent", "NoneType"} -> TRUE
      [] x.t = "bool" -> ~x.v
      [] x.t = "int" -> x.v = 0
      [] x.t = "str" -> x.v = ""
      [] x.t = "list" -> Len(x.v) = 0
      [] x.t = "dict" -> DOMAIN x.v = {}
      [] OTHER -> FALSE

\* if "difficulty" in q_data: q_data["difficulty"] = map_difficulty_to_english(...)
TranslateDifficulty(q) ==
    IF q.difficulty.t = "str"
    THEN [q EXCEPT !.difficulty = PyStr(GetDifficulty(q.difficulty.v))]
    ELSE q

\* for key, value in defaults.items(): if not q_data.get(key): q_data[key] = value
WithDefaults(q) ==
    [key \in DOMAIN q |-> IF PyFalsy(q[key]) THEN DefaultValues[key] ELSE q[key]]

\* the raw values of the keys (listed in sequences: they are of different
\* Python types)
RawTitles == <<Absent, PyNone, PyStr(""), PyStr("t")>>
RawSubjects == <<Absent, PyStr("s")>>
RawModules == <<PyStr(""), PyStr("m")>>
RawSubModules == <<Absent, PyStr("sm")>>
RawDifficulties == <<Absent, PyNone, PyStr(""), PyStr("kunnan"), PyStr("hard")>>
RawTags == <<Absent, PyList(<<>>), PyList(<<"x">>)>>
RawIsActive == <<Absent, PyNone, PyBool(FALSE), PyBool(TRUE)>>
RawStats == <<Absent, PyDict(<<>>), PyDict([totalAttempts |-> 3, correctAttempts |-> 1,
                                           accuracy |-> 33])>>

DefaultsStart ==
    /\ \E ti \in DOMAIN RawTitles, su \in DOMAIN RawSubjects, mo \in DOMAIN RawModules,
          sm \in DOMAIN RawSubModules, di \in DOMAIN RawDifficulties,
          ta \in DOMAIN RawTags, ia \in DOMAIN RawIsActive, st \in DOMAIN RawStats :
            df_data = [title |-> RawTitles[ti], subject |-> RawSubjects[su],
                       module |-> RawModules[mo], subModule |-> RawSubModules[sm],
                       difficulty |-> RawDifficulties[di], tags |-> RawTags[ta],
                       isActive |-> RawIsActive[ia], stats |-> RawStats[st]]
    /\ df_pc = "translate"
    /\ df_out = <<>>

DefaultsFrame == UNCHANGED <<df_data, splitVars, extractVars, orchVars, mergeVars,
                             replyVars, recoverVars, normVars, batchVars>>

\* map_difficulty_to_english(None): None.strip() raises AttributeError, caught
\* by except Exception at 403: the record is skipped
TranslateRaises ==
    /\ df_pc = "translate"
    /\ df_data.difficulty.t \notin {"absent", "str"}
    /\ df_pc' = "skipped"
    /\ UNCHANGED df_out
    /\ DefaultsFrame

\* lines 343-344
Translate ==
    /\ df_pc = "translate"
    /\ df_data.difficulty.t \in {"absent", "str"}
    /\ df_out' = TranslateDifficulty(df_data)
    /\ df_pc' = "defaults"
    /\ DefaultsFrame

\* lines 392-395
ApplyDefaults ==
    /\ df_pc = "defaults"
    /\ df_out' = WithDefaults(df_out)
    /\ df_pc' = "done"
    /\ DefaultsFrame

DefaultsNext == TranslateRaises \/ Translate \/ ApplyDefaults

(***************************************************************************)
(* The sanitizer (231-256) on replies that are clean JSON: one object in   *)
(* every layout of white space between its lexemes.                        *)
(***************************************************************************)
\* n spaces
Spaces(n) == [k \in 1..n |-> SP]

\* the white space between two lexemes: none, a space, or a line break
\* followed by the indentation of the next line
Gaps == {<<>>, <<SP>>} \cup {<<NL>> \o Spaces(n) : n \in 0..MaxIndent}

\* the text of the object {"Q1":1} with the gaps g[1..6] around its lexemes
Layout(g) ==
    g[1] \o <<LBRACE>> \o g[2] \o <<QUOTE, "Q1", QUOTE>> \o g[3] \o <<COLON>>
         \o g[4] \o <<"1">> \o g[5] \o <<RBRACE>> \o g[6]

\* generated_content is a clean JSON text
CleanStart ==
    /\ reply \in {Layout(g) : g \in [1..6 -> Gaps]}
    /\ content = <<>>
    /\ rp_pc = "sanitize"
    /\ transformed_data = PyNone
    /\ questions_data = PyNone
    /\ rp_value = "none"
    /\ rp_raised = "None"

CleanNext == SanitizeReply

(***************************************************************************)
(* The specifications: each component runs alone, the others stay idle     *)
(***************************************************************************)
SplitIdle ==
    /\ data = <<>>
    /\ max_items_per_chunk = 1
    /\ split_pc = "idle"
    /\ split_result = <<>>

ExtractIdle ==
    /\ raw_text_data = <<>>
    /\ api_key_valid = FALSE
    /\ max_retries = 0
    /\ ex_pc = "idle"
    /\ attempt = 0
    /\ generated_content = "None"
    /\ exc = NoExc
    /\ slept = 0
    /\ warmups = 0
    /\ backoffs = 0
    /\ api_calls = 0
    /\ ex_value = "none"
    /\ raised = NoExc
    /\ caught = {}
    /\ clients = NoClients

OrchIdle ==
    /\ file_idx = 1
    /\ pc = "idle"
    /\ json_data = <<>>
    /\ temp_json_file = FALSE
    /\ chunk_files = <<>>
    /\ j = 0
    /\ result_files = <<>>
    /\ result_fs = EmptyFolder
    /\ all_questions = <<>>
    /\ filtered_questions = <<>>
    /\ output_file = "unwritten"
    /\ o_slept = 0
    /\ doc_path = [path |-> "none", chunks_written |-> 0]
    /\ extract_calls = <<>>
    /\ chunk_outcome = <<>>
    /\ file_questions = [outcome |-> "none", questions |-> <<>>]

MergeIdle ==
    /\ m_result_files = <<>>
    /\ m_result_fs = EmptyFolder
    /\ m_pc = "idle"
    /\ m_merged = <<>>

RecoverIdle ==
    /\ rc_entry = "none"
    /\ rc_readable = FALSE
    /\ file_content = <<>>
    /\ rc_pc = "idle"
    /\ rc_path = "none"
    /\ rc_result = <<>>

NormalizeIdle ==
    /\ q_data = [content |-> <<>>, type |-> Absent, options |-> Absent,
                 correctAnswer |-> Absent]
    /\ nz_pc = "idle"
    /\ q_dict = NoRecord
    /\ nz_exc = "None"
    /\ nz_kept = FALSE

ReplyIdle ==
    /\ reply = <<>>
    /\ content = <<>>
    /\ rp_pc = "idle"
    /\ transformed_data = PyNone
    /\ questions_data = PyNone
    /\ rp_value = "none"
    /\ rp_raised = "None"

BatchIdle ==
    /\ bt_questions_data = <<>>
    /\ bt_pc = "idle"
    /\ bt_i = 1
    /\ valid_questions = <<>>
    /\ validated_questions = <<>>
    /\ final_output_questions = <<>>
    /\ bt_skipped = <<>>

DefaultsIdle ==
    /\ df_data = <<>>
    /\ df_pc = "idle"
    /\ df_out = <<>>

Init == OrchStart /\ SplitIdle /\ ExtractIdle /\ MergeIdle /\ ReplyIdle /\ RecoverIdle /\ NormalizeIdle /\ BatchIdle /\ DefaultsIdle
Next == OrchNext
Spec == Init /\ [][Next]_vars

\* every await of the orchestrator ends (the HTTP client has timeouts, the
\* sleeps are finite) and every loop body runs to its end
FairSpec == Spec /\ WF_vars(Next)

SplitInit == SplitStart /\ ExtractIdle /\ OrchIdle /\ MergeIdle /\ ReplyIdle /\ RecoverIdle /\ NormalizeIdle /\ BatchIdle /\ DefaultsIdle
SpecSplit == SplitInit /\ [][SplitNext]_vars

ExtractInit == ExtractStart /\ SplitIdle /\ OrchIdle /\ MergeIdle /\ ReplyIdle /\ RecoverIdle /\ NormalizeIdle /\ BatchIdle /\ DefaultsIdle
SpecExtract == ExtractInit /\ [][ExtractNext]_vars

MergeInit == MergeStart /\ SplitIdle /\ ExtractIdle /\ OrchIdle /\ ReplyIdle /\ RecoverIdle /\ NormalizeIdle /\ BatchIdle /\ DefaultsIdle
SpecMerge == MergeInit /\ [][MergeNext]_vars

ReplyInit == ReplyStart /\ SplitIdle /\ ExtractIdle /\ OrchIdle /\ MergeIdle /\ RecoverIdle /\ NormalizeIdle /\ BatchIdle /\ DefaultsIdle
SpecReply == ReplyInit /\ [][ReplyNext]_vars

CleanInit == CleanStart /\ SplitIdle /\ ExtractIdle /\ OrchIdle /\ MergeIdle /\ RecoverIdle /\ NormalizeIdle /\ BatchIdle /\ DefaultsIdle
SpecClean == CleanInit /\ [][CleanNext]_vars

RecoverInit == RecoverStart /\ SplitIdle /\ ExtractIdle /\ OrchIdle /\ MergeIdle /\ ReplyIdle /\ NormalizeIdle /\ BatchIdle /\ DefaultsIdle
SpecRecover == RecoverInit /\ [][RecoverNext]_vars

NormalizeInit == NormalizeStart /\ SplitIdle /\ ExtractIdle /\ OrchIdle /\ MergeIdle /\ ReplyIdle /\ RecoverIdle /\ BatchIdle /\ DefaultsIdle
SpecNormalize == NormalizeInit /\ [][NormalizeNext]_vars

BatchInit == BatchStart /\ SplitIdle /\ ExtractIdle /\ OrchIdle /\ MergeIdle /\ ReplyIdle /\ RecoverIdle /\ NormalizeIdle /\ DefaultsIdle
SpecBatch == BatchInit /\ [][BatchNext]_vars

DefaultsInit == DefaultsStart /\ SplitIdle /\ ExtractIdle /\ OrchIdle /\ MergeIdle /\ ReplyIdle /\ RecoverIdle /\ NormalizeIdle /\ BatchIdle
SpecDefaults == DefaultsInit /\ [][DefaultsNext]_vars

ChunkingInit == ChunkingStart /\ SplitIdle /\ ExtractIdle /\ MergeIdle /\ ReplyIdle /\ RecoverIdle /\ NormalizeIdle /\ BatchIdle /\ DefaultsIdle
SpecChunking == ChunkingInit /\ [][ChunkingNext]_vars

(***************************************************************************)
(* Claims about the splitter (SpecSplit)                                   *)
(***************************************************************************)
RECURSIVE ConcatChunks(_)
ConcatChunks(files) ==
    IF files = <<>> THEN <<>> ELSE Head(files).chunk \o ConcatChunks(Tail(files))

\* C1: for T >= 0 items and cap C >= 1 the splitter returns exactly ceil(T/C)
\* chunks (the n with (n-1)*C < T <= n*C), their concatenation in index order
\* is the original item sequence, and no returned chunk is empty.
C1_SplitPartition ==
    split_pc = "returned" =>
        LET n == Len(split_result)
            T == Len(data)
            C == max_items_per_chunk
        IN  /\ (n - 1) * C < T /\ T <= n * C
            /\ ConcatChunks(split_result) = data
            /\ \A k \in 1..n : split_result[k].chunk # <<>>

\* a document split into several chunks, the last one partial
C1_Witness ==
    /\ split_pc = "returned"
    /\ Len(split_result) >= 3
    /\ Len(data) % max_items_per_chunk # 0

\* C2: every chunk is the contiguous slice of the document at its position,
\* holds at most C items, and exactly C unless it is the last; 60 items with
\* cap 50 give 2 chunks of 50 and 10 items.
C2_ChunkSizes ==
    split_pc = "returned" =>
        LET n == Len(split_result)
            C == max_items_per_chunk
        IN  /\ \A k \in 1..n :
                 LET c == split_result[k].chunk
                 IN  /\ Len(c) <= C
                     /\ (k < n => Len(c) = C)
                     /\ c = SubSeq(data, (k - 1) * C + 1, (k - 1) * C + Len(c))
            /\ (Len(data) = 60 /\ C = 50) =>
                 /\ n = 2
                 /\ Len(split_result[1].chunk) = 50
                 /\ Len(split_result[2].chunk) = 10

\* the scenario of the claim: 60 items, cap 50, split done
C2_Witness ==
    /\ split_pc = "returned"
    /\ Len(data) = 60
    /\ max_items_per_chunk = 50
    /\ Len(split_result) = 2

(***************************************************************************)
(* Claims about the merge of the result files (SpecMerge)                  *)
(***************************************************************************)
\* C3: the list returned by _process_with_chunking is the concatenation of the
\* per-chunk results in ascending chunk-index order (m_result_files holds the
\* result files in the order of the chunk loop, which is ascending index
\* order; a chunk without result file contributes nothing).
C3_MergeInIndexOrder ==
    m_pc = "returned" => m_merged = LoadAll(m_result_files, m_result_fs)

(***************************************************************************)
(* Claims about the orchestrator and the final filter (Spec)               *)
(***************************************************************************)
\* C4: in the final filtered output the order values are 0..K-1, each
\* record's order being its 0-based position in the surviving list.
C4_DenseOrder ==
    pc = "done" =>
        \A k \in 1..Len(filtered_questions) : filtered_questions[k].order = k - 1

\* C5: the list written and returned is the subsequence, in the original
\* order, of the merged records of type single or multiple; a survivor whose
\* explanation is absent or null gets "", any other keeps its explanation;
\* nothing else of a record changes.
C5_FilterSubsequence ==
    pc = "done" =>
        LET kept == SelectSeq(all_questions,
                              LAMBDA q : q.type = "single" \/ q.type = "multiple")
        IN  /\ Len(filtered_questions) = Len(kept)
            /\ \A k \in 1..Len(kept) :
                 filtered_questions[k] =
                     IF kept[k].explanation = ABSENT \/ kept[k].explanation = NULL
                     THEN [kept[k] EXCEPT !.explanation = ""]
                     ELSE kept[k]
            /\ output_file = filtered_questions

\* a run that dropped a record and backfilled the explanation of a survivor
C5_Witness ==
    /\ pc = "done"
    /\ Len(filtered_questions) < Len(all_questions)
    /\ \E k \in 1..Len(all_questions) :
         all_questions[k].type = "single" /\ all_questions[k].explanation = ABSENT
    /\ \E k \in 1..Len(filtered_questions) : filtered_questions[k].explanation = ""

\* C6: when the extraction of a chunk raises, that chunk contributes no
\* question, and every later chunk of the document is still passed to extract
\* and the questions it returns are in the merged list.
C6_ChunkFailureIsolated ==
    (pc \in {"files", "done"} /\ doc_path.path = "CHUNKED") =>
        \A k \in 1..Len(chunk_outcome) :
            chunk_outcome[k].outcome = "raised" =>
                /\ \A q \in Range(file_questions.questions) : q.content[2] # k
                /\ \A k2 \in (k + 1)..Len(chunk_files) :
                     /\ \E c \in 1..Len(extract_calls) :
                          extract_calls[c] = [chunk |-> k2, input |-> chunk_files[k2].chunk]
                     /\ \A q \in Range(chunk_outcome[k2].questions) :
                          q \in Range(file_questions.questions)

\* a chunked document whose chunk k raised and whose later chunk returned questions
C6_Witness ==
    /\ pc = "files"
    /\ doc_path.path = "CHUNKED"
    /\ \E k \in 1..Len(chunk_outcome) : \E k2 \in (k + 1)..Len(chunk_outcome) :
         /\ chunk_outcome[k].outcome = "raised"
         /\ chunk_outcome[k2].outcome = "ok"
         /\ file_questions.questions # <<>>

\* C7: a document handed to _process_json_with_chunking takes the
\* SMALL_DIRECT path (one extract call on the whole document, no chunk file)
\* iff it has at most 50 valid text lines and at most 15000 characters;
\* otherwise it takes the CHUNKED path (chunk files are written).
C7_PathDecision ==
    doc_path.path \in {"SMALL_DIRECT", "CHUNKED"} =>
        LET small == ValidTextLines(json_data) <= 50 /\ TotalTextLength(json_data) <= 15000
        IN  /\ (doc_path.path = "SMALL_DIRECT") <=> small
            /\ doc_path.path = "SMALL_DIRECT" =>
                 /\ extract_calls = <<[chunk |-> 0, input |-> json_data]>>
                 /\ doc_path.chunks_written = 0
            /\ doc_path.path = "CHUNKED" =>
                 /\ doc_path.chunks_written >= 1
                 /\ \A c \in 1..Len(extract_calls) : extract_calls[c].chunk >= 1

\* a document of 60 records on both thresholds (50 valid lines, 15000
\* characters) whose direct call is in flight
C7_Witness ==
    /\ pc = "direct"
    /\ doc_path.path = "SMALL_DIRECT"
    /\ Len(json_data) = 60
    /\ ValidTextLines(json_data) = 50
    /\ TotalTextLength(json_data) = 15000

\* C26: while the chunks of a document are processed, the extract calls
\* started are those of chunks 1, 2, ... in that order, every call but the
\* last has returned or raised, and the last is the only one that may be in
\* flight.
C26_ChunksSequential ==
    pc \in {"chunk_loop", "chunk_call"} =>
        /\ \A c \in DOMAIN extract_calls : extract_calls[c].chunk = c
        /\ Len(chunk_outcome) <= Len(extract_calls)
        /\ Len(extract_calls) <= Len(chunk_outcome) + 1
        /\ (Len(extract_calls) = Len(chunk_outcome) + 1) <=> (pc = "chunk_call")

\* the call on the second chunk is in flight, the first chunk has raised
C26_Witness ==
    /\ pc = "chunk_call"
    /\ Len(extract_calls) = 2
    /\ Len(chunk_outcome) = 1
    /\ chunk_outcome[1].outcome = "raised"

\* C27: when the extract call of a chunk after the first starts, the
\* inter-chunk delay has been slept since the call before it ended.
C27_DelayBetweenChunks ==
    [][(pc = "chunk_loop" /\ pc' = "chunk_call" /\ j > 1) => o_slept >= CHUNK_DELAY]_vars

\* C36: on the chunked path the extract calls of a file are made on chunks
\* of strictly ascending index, each on the records of its chunk, so no
\* chunk is passed twice; when a call has ended, by a list, an empty list or
\* an exception, the loop moves to the next chunk, and the next call, if
\* there is one, is for the chunk the loop is at.
C36_EachChunkAtMostOnce ==
    /\ [](doc_path.path = "CHUNKED" =>
            /\ \A a, b \in DOMAIN extract_calls :
                  a < b => extract_calls[a].chunk < extract_calls[b].chunk
            /\ \A a \in DOMAIN extract_calls :
                  /\ extract_calls[a].chunk \in DOMAIN chunk_files
                  /\ extract_calls[a].input = chunk_files[extract_calls[a].chunk].chunk)
    /\ [][/\ (pc = "chunk_call" /\ pc' = "chunk_loop") => (j' = j + 1)
          /\ (pc = "chunk_loop" /\ pc' = "chunk_call") =>
                (/\ j' = j
                 /\ extract_calls' = Append(extract_calls,
                        [chunk |-> j, input |-> chunk_files[j].chunk]))]_vars

\* three chunks were passed to extract: the first call raised, the second
\* returned nothing, and the third call is for the third chunk
C36_Witness ==
    /\ doc_path.path = "CHUNKED"
    /\ pc = "chunk_call"
    /\ Len(chunk_outcome) = 2
    /\ chunk_outcome[1].outcome = "raised"
    /\ chunk_outcome[2].outcome = "empty"
    /\ Len(extract_calls) = 3
    /\ extract_calls[3].chunk = 3

\* C24: convert_json_to_questions always completes: a document that is
\* skipped, returns or raises adds exactly the questions its processing
\* returned to all_questions and the loop goes on; in the end the output file
\* is written with the filtered questions of all the documents.
C24_AlwaysCompletes ==
    /\ [][file_idx' = file_idx + 1 =>
            /\ pc' = "files"
            /\ all_questions' = all_questions \o file_questions'.questions]_vars
    /\ <>(pc = "done" /\ output_file = FilterQuestions(all_questions))

\* the run is complete, the last document raised and the questions of an
\* earlier document are in the output file
C24_Witness ==
    /\ pc = "done"
    /\ file_questions.outcome = "raised"
    /\ output_file # "unwritten"
    /\ output_file # <<>>

(***************************************************************************)
(* Claims about the retry loop of extract (SpecExtract)                    *)
(***************************************************************************)
\* the attempt in flight fails with an exception of E and its except clause ends
FailsWith(E) ==
    /\ ex_pc = "in_flight"
    /\ ex_pc' \in {"loop", "raised"}
    /\ exc' \in E

\* the next step after the backoff for an exception of E is the next API call
RetriesAfter(E) ==
    (ex_pc = "loop" /\ exc \in E) =>
        (ex_pc' = "in_flight" /\ attempt' = attempt /\ api_calls' = api_calls + 1)

\* C8: when attempt k fails with a connect/read/timeout error and
\* k < max_retries-1 the client sleeps base_delay * 2^k, plus the network-error
\* delay only for a read error, and then makes attempt k+1; when
\* k = max_retries-1 it re-raises the error without sleeping.
C8_TransportBackoff ==
    /\ [][FailsWith(TransportExc) =>
            IF attempt < max_retries - 1
            THEN /\ slept' = 5 * (2 ^ attempt)
                              + (IF exc'.type = "ReadError" THEN 15 ELSE 0)
                 /\ backoffs' = backoffs + 1
                 /\ ex_pc' = "loop"
                 /\ attempt' = attempt + 1
            ELSE /\ ex_pc' = "raised"
                 /\ raised' = exc'
                 /\ slept' = 0
                 /\ backoffs' = backoffs]_vars
    /\ [][RetriesAfter(TransportExc)]_vars

\* a read error on attempt 1 was followed by a sleep of 5 * 2 + 15 seconds
C8_Witness ==
    /\ ex_pc = "loop"
    /\ exc = Exc("ReadError", 0)
    /\ attempt = 2
    /\ slept = 25

\* C9: when attempt k gets an HTTP 429 and k < max_retries-1 the client sleeps
\* base_delay * 2^k + 5 and retries; a 429 on the last attempt is raised.
C9_RateLimitBackoff ==
    /\ [][FailsWith({Exc("HTTPStatusError", 429)}) =>
            IF attempt < max_retries - 1
            THEN /\ slept' = 5 * (2 ^ attempt) + 5
                 /\ backoffs' = backoffs + 1
                 /\ ex_pc' = "loop"
                 /\ attempt' = attempt + 1
            ELSE /\ ex_pc' = "raised"
                 /\ raised' = exc'
                 /\ slept' = 0]_vars
    /\ [][RetriesAfter({Exc("HTTPStatusError", 429)})]_vars

\* a 429 on attempt 2 was followed by a sleep of 5 * 4 + 5 seconds
C9_Witness ==
    /\ ex_pc = "loop"
    /\ exc = Exc("HTTPStatusError", 429)
    /\ attempt = 3
    /\ slept = 25

\* C10: an HTTP status error other than 429, on any attempt, is raised at
\* once: no sleep, and no step (so no API call) of that extract call follows.
C10_OtherStatusRaised ==
    /\ [][FailsWith(HttpStatusExc \ {Exc("HTTPStatusError", 429)}) =>
            /\ ex_pc' = "raised"
            /\ raised' = exc'
            /\ slept' = 0
            /\ backoffs' = backoffs
            /\ api_calls' = api_calls]_vars
    /\ [][~(ex_pc = "raised" /\ raised.type = "HTTPStatusError"
                             /\ raised.status_code # 429)]_vars

\* a 500 was raised on an attempt that was not the last one
C10_Witness ==
    /\ ex_pc = "raised"
    /\ raised = Exc("HTTPStatusError", 500)
    /\ attempt >= 1
    /\ attempt < max_retries - 1

\* C11: an exception of an attempt that is neither transport-class nor an HTTP
\* status error is retried after the fixed base delay, whatever the attempt
\* number, while attempt < max_retries-1; on the last attempt it is raised.
C11_OtherFixedDelay ==
    /\ [][FailsWith(OtherExc) =>
            IF attempt < max_retries - 1
            THEN /\ slept' = 5
                 /\ backoffs' = backoffs + 1
                 /\ ex_pc' = "loop"
                 /\ attempt' = attempt + 1
            ELSE /\ ex_pc' = "raised"
                 /\ raised' = exc'
                 /\ slept' = 0
                 /\ backoffs' = backoffs]_vars
    /\ [][RetriesAfter(OtherExc)]_vars

\* a KeyError on attempt 3 was followed by a sleep of 5 seconds
C11_Witness ==
    /\ ex_pc = "loop"
    /\ exc = Exc("KeyError", 0)
    /\ attempt = 4
    /\ slept = 5

\* C12: an extract call in which no attempt succeeded ends by raising: for
\* every configured max_retries it never leaves the retry loop by returning
\* (an empty list) without a successful attempt.
C12_NeverEmptySuccess ==
    [][(ex_pc = "loop" /\ ex_pc' # "in_flight") => ex_pc' = "raised"]_vars

\* C28: the warm-up delay is slept once, before any API call of the extract
\* call, and every API call (the first attempt and each retry) starts after
\* exactly one warm-up.
C28_WarmUpOnce ==
    [][/\ api_calls' > api_calls => warmups = 1
       /\ warmups' # warmups =>
             /\ warmups = 0 /\ api_calls = 0
             /\ warmups' = 1 /\ slept' = API_WARMUP_DELAY]_vars

\* the third attempt is in flight after two backoffs and one warm-up
C28_Witness ==
    /\ ex_pc = "in_flight"
    /\ api_calls = 3
    /\ backoffs = 2
    /\ warmups = 1

\* C25: on the direct path the processing of the document raises only for
\* a transport error whose retries are exhausted; after any other failure of
\* extract it returns a list.
C25_OnlyExhaustedTransportPropagates ==
    DirectOutcome.outcome = "raised" =>
        /\ DirectOutcome.exc \in TransportExc
        /\ ~CanRetry(attempt, max_retries)

\* C33: one extract call makes at most max_retries API calls. Every API
\* call is the single call of a new attempt, made while no reply has been
\* received; every failure that is retried, whatever clause caught it, uses
\* up one attempt of the same counter; after a reply was received, or the
\* call returned or raised, no API call is made.
C33_OneCapForAllFailures ==
    /\ [](api_calls <= max_retries)
    /\ [](ex_pc = "in_flight" => api_calls = attempt + 1)
    /\ [][/\ (api_calls' # api_calls) =>
                (/\ api_calls' = api_calls + 1
                 /\ api_calls = attempt /\ attempt' = attempt
                 /\ ex_pc = "loop" /\ ex_pc' = "in_flight"
                 /\ generated_content = "None")
          /\ (ex_pc = "in_flight" /\ ex_pc' = "loop") =>
                (attempt' = attempt + 1 /\ api_calls' = api_calls)
          /\ (ex_pc \in {"parse", "returned", "raised"}) =>
                (api_calls' = api_calls)]_vars

\* the cap was reached by failures caught by all three except clauses
C33_Witness ==
    /\ ex_pc = "raised"
    /\ api_calls = max_retries
    /\ max_retries >= 3
    /\ caught = {"transport", "status", "other"}

\* C34: every API call is made on a client opened for that attempt while no
\* other client is open; a step that sleeps a backoff, and a step that
\* begins the next attempt, start from or leave no open client; a client
\* is open exactly while its request is in flight, so at most one client,
\* of at most one connection, is open at any moment.
C34_FreshClientPerAttempt ==
    /\ [](clients.open * MAX_CONNECTIONS <= 1)
    /\ [](clients.open = 1 <=> ex_pc = "in_flight")
    /\ [](clients.opened = api_calls)
    /\ [][/\ (api_calls' # api_calls) =>
                (/\ clients.open = 0
                 /\ clients'.opened = clients.opened + 1
                 /\ clients'.open = 1)
          /\ (backoffs' # backoffs) =>
                (slept' > 0 /\ clients.open = 1 /\ clients'.open = 0)]_vars

\* the second attempt is in flight on the second client, after a backoff
C34_Witness ==
    /\ ex_pc = "in_flight"
    /\ backoffs = 1
    /\ clients = [opened |-> 2, open |-> 1]

\* C39: a call with an empty list of records returns an empty list, with or
\* without a valid API key, having slept nothing and called the API never;
\* a call with records and no valid API key raises ValueError, before the
\* warm-up sleep and before any API call. In both cases that end is the
\* only step the call can take.
C39_EntryChecks ==
    /\ raw_text_data = <<>> =>
          /\ ex_pc \in {"entry", "returned"}
          /\ ex_pc = "returned" => ex_value = "empty"
          /\ ex_pc = "entry" => ENABLED ExtractEmptyInput
          /\ raised = NoExc
          /\ warmups = 0 /\ backoffs = 0 /\ slept = 0 /\ api_calls = 0
    /\ (raw_text_data # <<>> /\ ~api_key_valid) =>
          /\ ex_pc \in {"entry", "raised"}
          /\ ex_pc = "raised" => raised = Exc("ValueError", 0)
          /\ ex_pc = "entry" => ENABLED ExtractNoApiKey
          /\ ex_value = "none"
          /\ warmups = 0 /\ backoffs = 0 /\ slept = 0 /\ api_calls = 0

\* the call with an empty list and no valid API key has returned
C39_Witness ==
    /\ raw_text_data = <<>>
    /\ ~api_key_valid
    /\ ex_pc = "returned"
    /\ ex_value = "empty"
    /\ api_calls = 0 /\ warmups = 0

(***************************************************************************)
(* Claims about the reply of the model (SpecReply)                         *)
(***************************************************************************)
\* C13: sanitizing is idempotent: sanitizing the sanitized reply gives the
\* sanitized reply again, for every reply, including replies with several
\* leading fence markers or with a fence marker and the payload on one line.
C13_SanitizeIdempotent ==
    rp_pc \notin {"idle", "sanitize"} => Sanitize(content) = content

\* C14: after a successful API response the call never raises because of the
\* reply's format: a reply that is empty after sanitizing, is not valid JSON,
\* or is valid JSON of an unexpected shape (questions present but not a list,
\* a bare scalar or null, an object without questions) makes the call return
\* an empty list.
C14_FormatDegradesToEmpty ==
    /\ rp_pc # "raised"
    /\ (/\ rp_pc \in {"returned", "validate"}
        /\ \/ content = <<>>
           \/ Loads(content).t = "JSONDecodeError"
           \/ Loads(content).t \in {"NoneType", "bool", "int", "str"}
           \/ /\ Loads(content).t = "dict"
              /\ \/ "questions" \notin DOMAIN Loads(content).v
                 \/ Loads(content).v["questions"].t # "list")
       => (rp_pc = "returned" /\ rp_value = "empty")

(***************************************************************************)
(* Claims about reading a document (SpecRecover)                           *)
(***************************************************************************)
\* what each line gives by itself, one after the other
RECURSIVE EachLineByItself(_)
EachLineByItself(lines) ==
    IF lines = <<>> THEN <<>>
    ELSE ManualLine(Head(lines)) \o EachLineByItself(Tail(lines))

\* C15: _parse_json_file and _parse_lines_manually never raise, whatever the
\* file holds: they return a list (possibly empty); a line that no repair
\* rescues is dropped and the lines after it are still processed, so the
\* manual parser returns what each line gives by itself, in order.
C15_RecoveryNeverRaises ==
    /\ rc_pc # "raised"
    /\ rc_pc = "returned" =>
          /\ DOMAIN rc_result = 1..Len(rc_result)
          /\ rc_path \in {"manual", "manual_after_error"} =>
                rc_result = EachLineByItself(SplitLines(Strip(file_content), <<>>))

\* the first line was dropped and the record of the second line was returned
C15_Witness ==
    /\ rc_pc = "returned"
    /\ file_content = LINE_ELLIPSIS_OPEN \o <<NL>> \o LINE_JS
    /\ rc_entry = "_parse_lines_manually"
    /\ rc_result = <<TextRecord(<<"Q1">>)>>

\* C16: for the line {type: "text", text: "Q1...} (keys not quoted, the
\* ellipsis before the closing brace, no closing quote) the recovery quotes
\* the keys, strips the ellipsis and returns the record
\* {type: "text", text: "Q1"}: the line is neither a failure nor dropped.
C16_EllipsisLineRepaired ==
    (rc_pc = "returned" /\ rc_readable /\ file_content = LINE_ELLIPSIS_OPEN)
        => rc_result = <<TextRecord(<<"Q1">>)>>

(***************************************************************************)
(* Claims about the normalization of a record (SpecNormalize)              *)
(***************************************************************************)
\* C17: the coercion of correctAnswer always gives a list: a bare string X
\* becomes [X], a list is kept as it is, null and any other value that is not
\* a list become []; a record without correctAnswer is emitted with [].
C17_CorrectAnswerIsList ==
    nz_pc \in {"emitted", "filtered"} =>
        /\ q_dict.correctAnswer.t = "list"
        /\ q_data.correctAnswer.t = "str" =>
              q_dict.correctAnswer.v = <<q_data.correctAnswer.v>>
        /\ q_data.correctAnswer.t = "list" =>
              q_dict.correctAnswer.v = q_data.correctAnswer.v
        /\ q_data.correctAnswer.t \in {"absent", "NoneType", "int"} =>
              q_dict.correctAnswer.v = <<>>

\* a record whose correctAnswer was the number 5 was emitted with []
C17_Witness ==
    /\ nz_pc = "emitted"
    /\ q_data.correctAnswer.t = "int"
    /\ q_dict.correctAnswer.t = "list"
    /\ q_dict.correctAnswer.v = <<>>

\* C18: a record whose content holds the multiple-choice marker gets the
\* type multiple, whatever the number of answers, the raw type, the options
\* and the judgment marker.
C18_MultiMarkerWins ==
    (nz_pc \in {"emitted", "filtered"} /\ HasMarker(q_data.content, MULTI_MARKER))
        => q_dict.type = "multiple"

\* the marker, with one answer, no options and the raw type of a judgment question
C18_Witness ==
    /\ nz_pc = "emitted"
    /\ q_data.content = <<MULTI_MARKER, JUDGMENT_MARKER, "q">>
    /\ q_data.correctAnswer.t = "str"
    /\ q_data.options.t = "absent"
    /\ q_data.type.t = "str" /\ q_data.type.v = "panduanti"
    /\ q_dict.type = "multiple"

\* C19: a record with the judgment marker, one answer and no multiple-choice
\* marker is emitted with exactly the synthesized pair of options (A correct,
\* B incorrect), whatever options the raw record had.
C19_JudgmentOptionsArePair ==
    (/\ nz_pc \in {"emitted", "filtered"}
     /\ HasMarker(q_data.content, JUDGMENT_MARKER)
     /\ ~HasMarker(q_data.content, MULTI_MARKER)
     /\ Len(q_dict.correctAnswer.v) = 1)
        => (q_dict.options.t = "list" /\ q_dict.options.v = JudgmentPair)

\* C20: a record with the judgment marker, no options, at most one answer and
\* no multiple-choice marker is emitted with type single (not true_false, not
\* short_answer) and the synthesized pair, and the final filter keeps it.
C20_JudgmentWithoutOptions ==
    (/\ HasMarker(q_data.content, JUDGMENT_MARKER)
     /\ ~HasMarker(q_data.content, MULTI_MARKER)
     /\ Falsy(q_data.options)
     /\ q_data.correctAnswer.t = "list" => Len(q_data.correctAnswer.v) <= 1
     /\ q_data.type.t # "NoneType")
        => /\ nz_pc # "skipped"
           /\ nz_pc \in {"emitted", "filtered"} =>
                 /\ q_dict.type = "single"
                 /\ q_dict.options.t = "list"
                 /\ q_dict.options.v = JudgmentPair
           /\ nz_pc = "filtered" => nz_kept

\* such a record, without options and without answer, passed the final filter
C20_Witness ==
    /\ nz_pc = "filtered"
    /\ nz_kept
    /\ q_data.content = <<JUDGMENT_MARKER, "q">>
    /\ q_data.options.t = "absent"
    /\ q_data.correctAnswer.t = "absent"
    /\ q_dict.type = "single"

\* C29: a record without the multiple-choice marker is emitted with type
\* multiple when its coerced correctAnswer has more than one element;
\* otherwise with single when it has options after the judgment synthesis (a
\* judgment marker, or raw options that are not empty) and with short_answer
\* when it has none.
C29_TypeByAnswersAndOptions ==
    (nz_pc \in {"emitted", "filtered"} /\ ~HasMarker(q_data.content, MULTI_MARKER)) =>
        q_dict.type =
            IF Len(q_dict.correctAnswer.v) > 1 THEN "multiple"
            ELSE IF \/ HasMarker(q_data.content, JUDGMENT_MARKER)
                    \/ (q_data.options.t = "list" /\ q_data.options.v # <<>>)
                 THEN "single"
            ELSE "short_answer"

\* a record with one answer and an empty options list was emitted as short_answer
C29_Witness ==
    /\ nz_pc = "emitted"
    /\ q_data.content = <<"q">>
    /\ q_data.options.t = "list" /\ q_data.options.v = <<>>
    /\ q_data.correctAnswer.t = "list" /\ Len(q_data.correctAnswer.v) = 1
    /\ q_dict.type = "short_answer"

\* C35: whatever the raw record carries as its type (no key, a Chinese name
\* of the table, an English name, a word outside the table), the record is
\* emitted with type single, multiple or short_answer: true_false,
\* fill_in_the_blank, calculation and unknown, the values of the translation,
\* are replaced by the inference on content, answers and options.
C35_OnlyInferredTypes ==
    nz_pc \in {"emitted", "filtered"} =>
        /\ q_dict.type \in {"single", "multiple", "short_answer"}
        /\ q_dict.type \notin {"true_false", "fill_in_the_blank", "calculation", "unknown"}
        /\ q_dict.type = InferType(q_data.content, CoerceCorrectAnswer(q_data.correctAnswer),
                                   JudgmentOptions(q_data.content, q_data.options))

\* a record given as a fill-in question, with options and one answer, was
\* emitted as single
C35_Witness ==
    /\ nz_pc = "emitted"
    /\ q_data.type.t = "str" /\ q_data.type.v = "tiankongti"
    /\ GetQuestionType(q_data.type.v) = "fill_in_the_blank"
    /\ q_data.options.t = "list" /\ Len(q_data.options.v) = 2
    /\ q_dict.type = "single"

\* C38: a record the final filter keeps with type single has an options
\* list that is not empty; a record it keeps with no options (the key
\* absent, or an empty list) has type multiple.
C38_SingleHasOptions ==
    (nz_pc = "filtered" /\ nz_kept) =>
        /\ q_dict.type = "single" =>
              (q_dict.options.t = "list" /\ Len(q_dict.options.v) > 0)
        /\ (\/ q_dict.options.t # "list"
            \/ (q_dict.options.t = "list" /\ Len(q_dict.options.v) = 0)) =>
              q_dict.type = "multiple"

\* a record with the multiple-choice marker and no options key was kept, as
\* multiple and without options
C38_Witness ==
    /\ nz_pc = "filtered"
    /\ nz_kept
    /\ q_data.options.t = "absent"
    /\ q_dict.options.t = "absent"
    /\ q_dict.type = "multiple"

(***************************************************************************)
(* Claims about the records of one reply (SpecBatch)                       *)
(***************************************************************************)
\* the values of config.QUESTION_TYPE_MAP and its fallback
EnumeratedTypes == {"single", "multiple", "true_false", "fill_in_the_blank",
                    "short_answer", "calculation", "unknown"}

\* C21: every record extract returns has a content that is a non-empty
\* string, a correctAnswer that is a list, and a type among the enumerated
\* values.
C21_CanonicalInvariant ==
    \A k \in DOMAIN final_output_questions :
        /\ final_output_questions[k].content.t = "str"
        /\ final_output_questions[k].content.v # <<>>
        /\ final_output_questions[k].correctAnswer.t = "list"
        /\ final_output_questions[k].type \in EnumeratedTypes

\* a record with a free-form raw type and a bare string as answer was returned
C21_Witness ==
    /\ bt_pc = "returned"
    /\ \E k \in DOMAIN final_output_questions :
          LET r == bt_questions_data[final_output_questions[k].src]
          IN  /\ r.type.t = "str" /\ r.type.v = "ziyou"
              /\ r.correctAnswer.t = "str"
              /\ final_output_questions[k].type = "single"
              /\ final_output_questions[k].correctAnswer.v = <<"A">>

\* the records the claim excludes: not an object, content missing or empty,
\* a wrongly typed content, type or options, or an exception while normalizing
Rejected(r) ==
    \/ r.kind # "dict"
    \/ ContentFalsy(r.content)
    \/ r.content.t # "str"
    \/ r.type.t \notin {"absent", "str"}
    \/ r.options.t \notin {"absent", "NoneType", "list"}
    \/ NormalizeException(r) # "None"

\* the positions of the other records, in ascending order
RECURSIVE KeptFrom(_, _)
KeptFrom(items, k) ==
    IF k > Len(items) THEN <<>>
    ELSE (IF Rejected(items[k]) THEN <<>> ELSE <<k>>) \o KeptFrom(items, k + 1)

\* C22: the call returns, in their original order, exactly the records that
\* are objects with a non-empty content, well typed fields and no exception
\* during normalization, each one normalized; the others are left out and the
\* call never stops on them.
C22_RejectionIsolated ==
    /\ bt_pc \in {"validate", "normalize"} => ENABLED BatchNext
    /\ bt_pc = "returned" =>
          LET kept == KeptFrom(bt_questions_data, 1)
          IN  /\ Len(final_output_questions) = Len(kept)
              /\ \A k \in DOMAIN final_output_questions :
                    /\ final_output_questions[k].src = kept[k]
                    /\ final_output_questions[k].order = k - 1
                    /\ final_output_questions[k].type =
                           NormalizedItem(bt_questions_data[kept[k]]).type

\* a batch whose first record raised while it was normalized and whose second
\* record was returned
C22_Witness ==
    /\ bt_pc = "returned"
    /\ Len(bt_questions_data) = 2
    /\ IsValidItem(bt_questions_data[1])
    /\ NormalizeException(bt_questions_data[1]) # "None"
    /\ Len(final_output_questions) = 1
    /\ final_output_questions[1].src = 2

(***************************************************************************)
(* Claims about _process_with_chunking (SpecChunking)                      *)
(***************************************************************************)
\* C23: when _process_with_chunking has returned, raised or been cancelled,
\* the temporary file it created does not exist any more.
C23_TempFileRemoved ==
    pc \in {"pwc_returned", "pwc_raised", "pwc_cancelled"} => ~temp_json_file

\* the questions the chunks of this run returned, in chunk order
RECURSIVE ReturnedNow(_)
ReturnedNow(outcomes) ==
    IF outcomes = <<>> THEN <<>> ELSE Head(outcomes).questions \o ReturnedNow(Tail(outcomes))

\* C37: the result files of a run are those of the chunks whose extract call
\* returned a non-empty list, each holding that list; the merged list the
\* method returns is the concatenation of those lists, so a question of a
\* result file that an earlier run left in the result folder is in it only
\* if this run wrote it again.
C37_OnlyThisRunMerged ==
    /\ \A c \in DOMAIN chunk_outcome :
          LET result_file == ResultFileName(chunk_files[c].name) IN
          /\ (result_file \in Range(result_files)) <=> (chunk_outcome[c].questions # <<>>)
          /\ chunk_outcome[c].questions # <<>> =>
                result_fs[result_file] = chunk_outcome[c].questions
    /\ Len(result_files) <= Len(chunk_outcome)
    /\ (pc = "pwc_returned") =>
          /\ file_questions.questions = ReturnedNow(chunk_outcome)
          /\ \A k \in DOMAIN file_questions.questions :
                file_questions.questions[k].content[1] = file_idx

\* the folder held a result file for chunk 2 from an earlier run; in this
\* run chunk 1 returned questions and chunk 2 returned nothing: the file
\* is still in the folder and the merged list holds the questions of chunk 1
C37_Witness ==
    /\ pc = "pwc_returned"
    /\ Len(chunk_outcome) = 2
    /\ chunk_outcome[1].outcome = "ok"
    /\ chunk_outcome[2].outcome = "empty"
    /\ ResultFileName(chunk_files[2].name) \in DOMAIN result_fs
    /\ result_fs[ResultFileName(chunk_files[2].name)][1].content[1] = 0
    /\ file_questions.questions = chunk_outcome[1].questions

(***************************************************************************)
(* Claims about the fields with a default (SpecDefaults)                   *)
(***************************************************************************)
\* two Python values are the same value
SameValue(x, y) == x.t = y.t /\ x.v = y.v

\* the keys the claim names
DefaultSet == {"title", "subject", "module", "difficulty", "tags", "isActive", "stats"}

\* C30: after the defaulting step each of title, subject, module, difficulty,
\* tags, isActive and stats holds its configured default when the value the
\* step found was falsy (missing, null, false, "", [], {}) and the value the
\* step found when it was truthy; a raw isActive of false becomes true.
C30_FalsyReplacedByDefault ==
    df_pc = "done" =>
        /\ \A key \in DefaultSet :
              LET found == TranslateDifficulty(df_data)[key]
              IN  IF \/ found.t \in {"absent", "NoneType"}
                     \/ (found.t = "bool" /\ found.v = FALSE)
                     \/ (found.t = "str" /\ found.v = "")
                     \/ (found.t = "list" /\ found.v = <<>>)
                     \/ (found.t = "dict" /\ DOMAIN found.v = {})
                  THEN SameValue(df_out[key], DefaultValues[key])
                  ELSE SameValue(df_out[key], found)
        /\ (df_data.isActive.t = "bool" /\ ~df_data.isActive.v) =>
              (df_out.isActive.t = "bool" /\ df_out.isActive.v)

\* a record with isActive false, an empty tags list and a title: the title
\* was kept, isActive is true, tags is the default
C30_Witness ==
    /\ df_pc = "done"
    /\ df_data.isActive.t = "bool" /\ ~df_data.isActive.v
    /\ df_data.tags.t = "list" /\ df_data.tags.v = <<>>
    /\ df_data.title.t = "str" /\ df_data.title.v = "t"
    /\ df_out.isActive.v
    /\ df_out.tags.v = <<"falv">>
    /\ df_out.title.v = "t"

(***************************************************************************)
(* Claims about the empty document (SpecChunking)                          *)
(***************************************************************************)
\* C31: for a document of no items the splitter returns an empty chunk list
\* (a value, not an exception), and _process_with_chunking then calls
\* extract on nothing, enters no chunk loop and returns an empty list: once
\* the temporary file is written, the return of [] is the step the method
\* can take.
C31_EmptyDocumentNothingToExtract ==
    json_data = <<>> =>
        /\ SplitJsonWithFolder(json_data, ORCH_CHUNK_CAP) = <<>>
        /\ extract_calls = <<>>
        /\ chunk_files = <<>>
        /\ chunk_outcome = <<>>
        /\ pc \in {"pwc_call", "pwc_split", "pwc_returned", "pwc_raised"}
        /\ pc = "pwc_split" => ENABLED SplitYieldsNothing
        /\ pc = "pwc_returned" =>
              file_questions = [outcome |-> "returned", questions |-> <<>>]

\* the method has returned for the empty document
C31_Witness ==
    /\ json_data = <<>>
    /\ pc = "pwc_returned"
    /\ file_questions.questions = <<>>
    /\ extract_calls = <<>>

(***************************************************************************)
(* Claims about the sanitizer on clean JSON (SpecClean)                    *)
(***************************************************************************)
\* C32: a reply without a fence marker that is one JSON text with no white
\* space around it, laid out on one line or on several indented lines, is
\* returned by the sanitizer as it was given.
C32_CleanJsonUnchanged ==
    (/\ rp_pc = "check_empty"
     /\ FENCE \notin Range(reply)
     /\ Strip(reply) = reply
     /\ LoadsTokens(reply).t = "dict") => content = reply

====
